---- MODULE Spec2Model ----
(***************************************************************************)
(* Model of the concurrent peer crawler of backend/crawler.py              *)
(* (BitcoinNodeCrawler): the scheduler loop of crawl(), the peer sessions  *)
(* of connect_to_node() running as asyncio tasks under one semaphore, and  *)
(* the address filter is_private_ip().                                     *)
(*                                                                         *)
(* asyncio is single-threaded and cooperative: a task runs without         *)
(* interruption from one await to the next.  Every action below is one     *)
(* such stretch of code; the remote peer's behaviour at each await is a    *)
(* nondeterministic choice.                                                *)
(***************************************************************************)
EXTENDS Integers, Sequences, FiniteSets, TLC

(***************************************************************************)
(* Bounds of the model.                                                    *)
(***************************************************************************)
MaxConcurrentBound == 2   \* max_concurrent is drawn from 1..MaxConcurrentBound
MaxNodesBound == 3        \* max_nodes is drawn from 0..MaxNodesBound
MaxSeeds == 2             \* length of the seed list
MaxAddrPeers == 2         \* address records in one addr frame
MaxDataReads == 1         \* non-empty chunks the remotes deliver to drain reads
MaxCodecPayload == 3      \* length of the payloads of frames made directly

(***************************************************************************)
(* Program constants.                                                      *)
(***************************************************************************)
max_attempts == 8
VizThreshold == 20
HeaderLen == 24
AddrRecordLen == 30
MaxPayload == 2097152
MaxAddrCount == 1000
PROTOCOL_VERSION == 70015

\* Python's None, as the result of a parse or of a session
None == [none |-> TRUE]

(***************************************************************************)
(* Addresses.  An IP string is modelled by what ipaddress.ip_address sees  *)
(* in it: a tuple of octets.  A tuple that is not four octets in 0..255    *)
(* does not parse (ValueError).                                            *)
(***************************************************************************)
Parses(ip) == Len(ip) = 4 /\ \A i \in 1..4 : ip[i] \in 0..255

\* ipaddress.IPv4Address.is_loopback: 127.0.0.0/8
IsLoopback(ip) == ip[1] = 127

\* ipaddress.IPv4Address.is_link_local: 169.254.0.0/16
IsLinkLocal(ip) == ip[1] = 169 /\ ip[2] = 254

\* ipaddress.IPv4Address.is_private: membership in the IANA special-purpose
\* networks the standard library lists
IsPrivate(ip) ==
    \/ ip[1] = 0
    \/ ip[1] = 10
    \/ ip[1] = 127
    \/ ip[1] = 169 /\ ip[2] = 254
    \/ ip[1] = 172 /\ ip[2] \in 16..31
    \/ ip[1] = 192 /\ ip[2] = 0 /\ ip[3] = 0 /\ ip[4] \in 0..7
    \/ ip[1] = 192 /\ ip[2] = 0 /\ ip[3] = 0 /\ ip[4] \in 170..171
    \/ ip[1] = 192 /\ ip[2] = 0 /\ ip[3] = 2
    \/ ip[1] = 192 /\ ip[2] = 168
    \/ ip[1] = 198 /\ ip[2] \in 18..19
    \/ ip[1] = 198 /\ ip[2] = 51 /\ ip[3] = 100
    \/ ip[1] = 203 /\ ip[2] = 0 /\ ip[3] = 113
    \/ ip[1] \in 240..255

\* mutant: the link-local test is forgotten
is_private_ip_NoLinkLocal(ip) ==
    IF ~Parses(ip) THEN TRUE
    ELSE (IsPrivate(ip) /\ ~IsLinkLocal(ip)) \/ IsLoopback(ip)

is_private_ip(ip) ==
    IF ~Parses(ip) THEN TRUE
    ELSE IsPrivate(ip) \/ IsLoopback(ip) \/ IsLinkLocal(ip)

(***************************************************************************)
(* The endpoints of the model: (ip, port) pairs.                           *)
(***************************************************************************)
R1 == << <<8, 8, 8, 8>>, 8333 >>
R2 == << <<8, 8, 8, 8>>, 8334 >>          \* same ip as R1, other port
R3 == << <<1, 1, 1, 1>>, 8333 >>
PrivEp == << <<10, 0, 0, 1>>, 8333 >>
LoopEp == << <<127, 0, 0, 1>>, 8333 >>
LinkEp == << <<169, 254, 1, 1>>, 8333 >>
BadEp == << <<300, 1, 1>>, 8333 >>        \* a string that is no IP address

Routable == {R1, R2, R3}
NonRoutable == {PrivEp, LoopEp, LinkEp, BadEp}
WildEndpoints == Routable \cup NonRoutable

\* the endpoints of a mock network: seed i and the j-th peer seed i advertises
MockSeed(i) == << <<20, 0, 0, i>>, 8333 >>
MockPeer(i, j) == << <<21, 0, i, j>>, 8333 >>

\* the endpoints a seed list is drawn from
SeedUniverse == {R1, R2, PrivEp, LoopEp, LinkEp, BadEp}

SeqsUpTo(S, n) == UNION {[1..k -> S] : k \in 0..n}

SeqToSet(s) == {s[i] : i \in 1..Len(s)}

(***************************************************************************)
(* Bytes.  A bytes object is a sequence of integers in 0..255.  The        *)
(* integers of the model are below 2^31: a 32-bit magic is kept as the     *)
(* four bytes struct.pack('<I', magic) gives, and the integers that are    *)
(* packed and unpacked (lengths, counts, ports, timestamps) are small.     *)
(***************************************************************************)
Zeros(n) == [i \in 1..n |-> 0]

\* data[a:b] of Python: the bytes at the 0-based positions a..b-1 that exist
Slice(data, a, b) == SubSeq(data, a + 1, IF b < Len(data) THEN b ELSE Len(data))

\* struct.pack('<I', n) and struct.unpack('<I', b)[0]
pack_I(n) ==
    <<n % 256, (n \div 256) % 256, (n \div 65536) % 256, (n \div 16777216) % 256>>

unpack_I(b) == b[1] + 256 * b[2] + 65536 * b[3] + 16777216 * b[4]

\* struct.pack('<H', n) and struct.unpack('<H', b)[0]
pack_H(n) == <<n % 256, (n \div 256) % 256>>

unpack_H(b) == b[1] + 256 * b[2]

\* struct.pack('>H', n) and struct.unpack('>H', b)[0]: big-endian
pack_H_be(n) == <<(n \div 256) % 256, n % 256>>

unpack_H_be(b) == 256 * b[1] + b[2]

\* struct.pack('<Q', n) for n below 2^31
pack_Q(n) == pack_I(n) \o Zeros(4)

\* bytes.rstrip(b'\x00')
RECURSIVE rstrip(_)
rstrip(b) ==
    IF b # <<>> /\ b[Len(b)] = 0 THEN rstrip(SubSeq(b, 1, Len(b) - 1)) ELSE b

\* bytes.ljust(12, b'\x00') of at most 12 bytes
ljust12(b) == b \o Zeros(12 - Len(b))

\* the three magics, as the bytes of struct.pack('<I', magic)
MAINNET_MAGIC == <<249, 190, 180, 217>>    \* 0xD9B4BEF9
TESTNET_MAGIC == <<11, 17, 9, 7>>          \* 0x0709110B
REGTEST_MAGIC == <<250, 191, 181, 218>>    \* 0xDAB5BFFA

\* the commands, without their padding
CmdVersion == <<118, 101, 114, 115, 105, 111, 110>>
CmdVerack == <<118, 101, 114, 97, 99, 107>>
CmdGetaddr == <<103, 101, 116, 97, 100, 100, 114>>
CmdAddr == <<97, 100, 100, 114>>
CmdPing == <<112, 105, 110, 103>>

MSG_VERSION == ljust12(CmdVersion)
MSG_VERACK == ljust12(CmdVerack)
MSG_GETADDR == ljust12(CmdGetaddr)
MSG_ADDR == ljust12(CmdAddr)

\* hashlib.sha256(hashlib.sha256(payload).digest()).digest()[:4].  SHA-256
\* is not computed here: the model takes another fixed function of the
\* payload to four bytes, one that changes with every single byte, which is
\* all the codec uses of it.
RECURSIVE Digest(_, _, _)
Digest(payload, lo, hi) ==
    IF lo > hi THEN 0
    ELSE IF lo = hi THEN (lo * (payload[lo] + 1)) % 65521
    ELSE LET mid == (lo + hi) \div 2
         IN  (Digest(payload, lo, mid) + Digest(payload, mid + 1, hi)) % 65521

sha256d4(payload) ==
    LET h == Digest(payload, 1, Len(payload))
    IN  <<h % 256, h \div 256, Len(payload) % 256, (h + Len(payload)) % 251>>

\* an exception raised by a codec function
ValueError == [error |-> "ValueError"]

(***************************************************************************)
(* Integers up to 2^64.  A value a varint carries is kept as its four      *)
(* 16-bit limbs, the most significant first: <<a, b, c, d>> is             *)
(* a * 2^48 + b * 2^32 + c * 2^16 + d.                                     *)
(***************************************************************************)
\* the limbs of an integer below 2^31, and the integer of such limbs
Wide(n) == <<0, 0, n \div 65536, n % 65536>>

Narrow(w) == w[3] * 65536 + w[4]

\* x <= y
WideLeq(x, y) ==
    \/ x = y
    \/ \E i \in 1..4 : x[i] < y[i] /\ \A j \in 1..(i - 1) : x[j] = y[j]

\* struct.pack('<H', v), struct.pack('<I', v), struct.pack('<Q', v) of a
\* value that fits: the bytes of v, the least significant first
pack_H_wide(v) == pack_H(v[4])

pack_I_wide(v) == pack_H(v[4]) \o pack_H(v[3])

pack_Q_wide(v) == pack_H(v[4]) \o pack_H(v[3]) \o pack_H(v[2]) \o pack_H(v[1])

\* struct.unpack('<H', b)[0], struct.unpack('<I', b)[0], struct.unpack('<Q', b)[0]
unpack_H_wide(b) == <<0, 0, 0, b[1] + 256 * b[2]>>

unpack_I_wide(b) == <<0, 0, b[3] + 256 * b[4], b[1] + 256 * b[2]>>

unpack_Q_wide(b) ==
    <<b[7] + 256 * b[8], b[5] + 256 * b[6], b[3] + 256 * b[4], b[1] + 256 * b[2]>>

\* mutant: 0xFFFF is not given the three-byte form
varint_encode_StrictBound(value) ==
    IF WideLeq(value, Wide(252)) THEN <<value[4]>>
    ELSE IF WideLeq(value, Wide(65534)) THEN <<253>> \o pack_H_wide(value)
    ELSE IF WideLeq(value, <<0, 0, 65535, 65535>>) THEN <<254>> \o pack_I_wide(value)
    ELSE <<255>> \o pack_Q_wide(value)

\* varint_encode(value), lines 17-25: value < 0xFD, value <= 0xFFFF,
\* value <= 0xFFFFFFFF, else
varint_encode(value) ==
    IF WideLeq(value, Wide(252)) THEN <<value[4]>>
    ELSE IF WideLeq(value, Wide(65535)) THEN <<253>> \o pack_H_wide(value)
    ELSE IF WideLeq(value, <<0, 0, 65535, 65535>>) THEN <<254>> \o pack_I_wide(value)
    ELSE <<255>> \o pack_Q_wide(value)

\* varint_decode(data, offset): the value and the offset after it, or
\* ValueError
varint_decode(data, offset) ==
    IF offset >= Len(data) THEN ValueError
    ELSE LET first_byte == data[offset + 1]
         IN  IF first_byte < 253
             THEN [value |-> Wide(first_byte), offset |-> offset + 1]
             ELSE IF first_byte = 253
             THEN IF offset + 3 > Len(data) THEN ValueError
                  ELSE [value |-> unpack_H_wide(Slice(data, offset + 1, offset + 3)),
                        offset |-> offset + 3]
             ELSE IF first_byte = 254
             THEN IF offset + 5 > Len(data) THEN ValueError
                  ELSE [value |-> unpack_I_wide(Slice(data, offset + 1, offset + 5)),
                        offset |-> offset + 5]
             ELSE IF offset + 9 > Len(data) THEN ValueError
                  ELSE [value |-> unpack_Q_wide(Slice(data, offset + 1, offset + 9)),
                        offset |-> offset + 9]

\* create_message(command, payload, magic)
create_message(command, payload, magic) ==
    LET command_padded == ljust12(Slice(command, 0, 12))
        length == Len(payload)
        checksum == sha256d4(payload)
    IN  magic \o command_padded \o pack_I(length) \o checksum \o payload

create_verack_message == create_message(MSG_VERACK, <<>>, MAINNET_MAGIC)

create_getaddr_message == create_message(MSG_GETADDR, <<>>, MAINNET_MAGIC)

\* parse_message(data): the command and the payload of the frame data starts
\* with, or None
parse_message(data) ==
    IF Len(data) < HeaderLen THEN None
    ELSE LET magic == Slice(data, 0, 4)
             command == rstrip(Slice(data, 4, 16))
             length == unpack_I(Slice(data, 16, 20))
             checksum == Slice(data, 20, 24)
         IN  IF magic # MAINNET_MAGIC THEN None
             ELSE IF length > MaxPayload THEN None
             ELSE IF Len(data) < HeaderLen + length THEN None
             ELSE LET payload == Slice(data, 24, 24 + length)
                  IN  IF sha256d4(payload) # checksum THEN None
                      ELSE [cmd |-> command, payload |-> payload]

\* mutant: the port of a record that is skipped is not skipped
AfterSkipped_PortLeft(offset) == offset + 4 + 8 + 16

\* lines 117-129: the offset after a record that is skipped, from the offset
\* of its start: the timestamp, the services, the address, then offset += 2
AfterSkipped(offset) == offset + 4 + 8 + 16 + 2

\* one pass of the body of the loop of lines 113-134 of parse_addr_message;
\* loop holds the offset, the addresses and whether the break of line 115
\* was taken.  The 16-byte address is accepted when its first 12 bytes are
\* zero and the next two are FF FF; the dotted string is then made of
\* ip_bytes[14:18], the two bytes that are left of the 16.
AddrStep(data, loop) ==
    IF loop.broken THEN loop
    ELSE IF loop.offset + AddrRecordLen > Len(data)
    THEN [loop EXCEPT !.broken = TRUE]
    ELSE LET offset == loop.offset
             timestamp == unpack_I(Slice(data, offset, offset + 4))
             ip_bytes == Slice(data, offset + 12, offset + 28)
         IN  IF Slice(ip_bytes, 0, 12) = Zeros(12)
                /\ Slice(ip_bytes, 12, 14) = <<255, 255>>
             THEN LET ip == Slice(ip_bytes, 14, 18)
                      port == unpack_H_be(Slice(data, offset + 28, offset + 30))
                  IN  [loop EXCEPT !.offset = offset + 30,
                                   !.addresses = Append(@, <<ip, port, timestamp>>)]
             ELSE [loop EXCEPT !.offset = AfterSkipped(offset)]

\* n passes of the body, one after the other: the first half of them, then,
\* unless the loop was left, the others from where the first half ended
RECURSIVE AddrLoop(_, _, _)
AddrLoop(data, loop, n) ==
    IF n = 0 THEN loop
    ELSE IF n = 1 THEN AddrStep(data, loop)
    ELSE LET half == AddrLoop(data, loop, n \div 2)
         IN  IF half.broken THEN half
             ELSE AddrLoop(data, half, n - (n \div 2))

\* mutant: the cap is 0xFFFF
RecordsToRead_CapMoved(count) ==
    IF WideLeq(count, Wide(65535)) THEN Narrow(count) ELSE 65535

\* line 113: min(count, 1000)
RecordsToRead(count) ==
    IF WideLeq(count, Wide(MaxAddrCount)) THEN Narrow(count) ELSE MaxAddrCount

\* parse_addr_message(data): the (ip, port, timestamp) triples it returns;
\* an ip is the tuple of the numbers of the dotted string
parse_addr_message(data) ==
    IF Len(data) < 1 THEN <<>>
    ELSE LET r == varint_decode(data, 0)
         IN  IF r = ValueError THEN <<>>
             ELSE AddrLoop(data,
                           [offset |-> r.offset, addresses |-> <<>>,
                            broken |-> FALSE],
                           RecordsToRead(r.value)).addresses

(***************************************************************************)
(* What the remotes send.  An addr payload is a count and 30-byte records: *)
(* timestamp, services, a 16-byte address, a big-endian port.              *)
(***************************************************************************)
\* encode_ip of create_version_message (line 81): the IPv4-mapped form of an
\* IPv4 address, 10 zero bytes, FF FF, the four bytes of the address
ipv6_format(ip_parts) == Zeros(10) \o <<255, 255>> \o ip_parts

\* a 16-byte address of 12 zero bytes, FF FF and two more bytes
TwelveZeroForm(x, y) == Zeros(12) \o <<255, 255, x, y>>

\* a pure IPv6 address, 2001:db8::1
PureIPv6 == <<32, 1, 13, 184>> \o Zeros(11) \o <<1>>

AddrRecord(timestamp, address, port) ==
    pack_I(timestamp) \o pack_Q(1) \o address \o pack_H_be(port)

RECURSIVE Concat(_)
Concat(seqs) == IF seqs = <<>> THEN <<>> ELSE Head(seqs) \o Concat(Tail(seqs))

AddrPayload(records) == varint_encode(Wide(Len(records))) \o Concat(records)

\* the record of an endpoint in the IPv4-mapped form
MappedRecord(ep) == AddrRecord(7, ipv6_format(ep[1]), ep[2])

OddRecord == AddrRecord(7, TwelveZeroForm(8, 9), 8333)

IPv6Record == AddrRecord(7, PureIPv6, 8333)

\* the lists of records the remotes may send in an addr frame: endpoints in
\* the IPv4-mapped form (a routable one, a seed, a private one), a pure IPv6
\* address, and the form of 12 zero bytes
RecordFamily ==
    {<<MappedRecord(R3)>>, <<MappedRecord(R2), OddRecord>>,
     <<MappedRecord(PrivEp), IPv6Record, OddRecord>>}

AddrPayloads == {AddrPayload(rs) : rs \in {r \in RecordFamily : Len(r) <= MaxAddrPeers}}

\* the version payload of a remote: version, services, timestamp
VersionPayload == pack_I(PROTOCOL_VERSION) \o pack_Q(1) \o pack_Q(0)

VersionFrame == create_message(MSG_VERSION, VersionPayload, MAINNET_MAGIC)
VerackFrame == create_verack_message
PingFrame == create_message(CmdPing, Zeros(8), MAINNET_MAGIC)
AddrFrame(payload) == create_message(MSG_ADDR, payload, MAINNET_MAGIC)

\* 24 bytes parse_message rejects: a frame of another network
JunkFrame == create_message(MSG_VERACK, <<>>, TESTNET_MAGIC)

\* a frame cut short
CutFrame == Slice(VersionFrame, 0, 30)

\* what the remote may deliver to one read of the handshake; <<>> is b'',
\* the end of the stream
HandshakeChunks ==
    {<<>>, VersionFrame, VerackFrame, VersionFrame \o VerackFrame,
     JunkFrame, CutFrame, PingFrame}

\* what the remote may deliver to one read of the drain
DrainChunks ==
    {<<>>, PingFrame, JunkFrame \o AddrFrame(AddrPayload(<<OddRecord>>))}
    \cup {AddrFrame(pl) : pl \in AddrPayloads}

\* how an awaited read can end: with bytes, with asyncio.TimeoutError, or with
\* another exception (connection reset)
ReadEvents(chunks) ==
    {[kind |-> k, data |-> <<>>] : k \in {"timeout", "error"}}
    \cup {[kind |-> "data", data |-> c] : c \in chunks}

\* lines 116-131: decode the frames of addr_data from offset on, collecting
\* the peers of addr frames, until a position does not parse
RECURSIVE DrainParse(_, _, _)
DrainParse(addr_data, offset, new_peers) ==
    IF offset >= Len(addr_data) THEN new_peers
    ELSE LET msg_parsed == parse_message(Slice(addr_data, offset, Len(addr_data)))
         IN  IF msg_parsed = None THEN new_peers
             ELSE DrainParse(addr_data,
                             offset + HeaderLen + Len(msg_parsed.payload),
                             IF msg_parsed.cmd = CmdAddr
                             THEN new_peers \o parse_addr_message(msg_parsed.payload)
                             ELSE new_peers)

\* lines 147-155: the salvage pass at offsets 0, 24, 48
RECURSIVE SalvageFrom(_, _)
SalvageFrom(addr_data, offsets) ==
    IF offsets = <<>> THEN <<>>
    ELSE LET addr_msg == IF Head(offsets) < Len(addr_data)
                         THEN parse_message(Slice(addr_data, Head(offsets),
                                                  Len(addr_data)))
                         ELSE None
             peers == IF addr_msg # None /\ addr_msg.cmd = CmdAddr
                      THEN parse_addr_message(addr_msg.payload)
                      ELSE <<>>
         IN  IF peers # <<>> THEN peers ELSE SalvageFrom(addr_data, Tail(offsets))

Salvage(addr_data, new_peers) ==
    IF addr_data # <<>> /\ new_peers = <<>>
    THEN SalvageFrom(addr_data, <<0, 24, 48>>)
    ELSE new_peers

(***************************************************************************)
(* State.                                                                  *)
(***************************************************************************)
VARIABLES
    max_concurrent,    \* self.max_concurrent
    semaphore,         \* free permits of self.semaphore
    discovered_nodes,  \* self.discovered_nodes
    crawled_nodes,     \* self.crawled_nodes
    failed_nodes,      \* self.failed_nodes
    node_data,         \* self.node_data, the record buffer
    max_nodes,         \* argument of crawl
    has_callback,      \* update_viz_callback is not None
    last_viz_update,   \* local of crawl
    to_crawl,          \* the endpoints of the batch of the current iteration
    spc,               \* position of crawl: "init", "loop", "gather", "done"
    sess,              \* per endpoint, the connect_to_node task of the batch
    conn_attempts,     \* per endpoint, calls of asyncio.open_connection so far
    viz_calls,         \* invocations of the progress callback so far
    data_reads,        \* non-empty chunks delivered to drain reads so far
    exit_cause,        \* why the scheduler loop was left
    iteration,         \* local of crawl
    remote,            \* the network the crawler runs against
    codec,             \* the last call of a function of bitcoin_protocol
    database           \* the nodes table of the database file and the last
                       \* call of insert_nodes_batch

vars == <<max_concurrent, semaphore, discovered_nodes, crawled_nodes,
          failed_nodes, node_data, max_nodes, has_callback, last_viz_update,
          to_crawl, spc, sess, conn_attempts, viz_calls, data_reads,
          exit_cause, iteration, remote, codec, database>>

\* the endpoints a task can exist for
Endpoints == DOMAIN sess

\* a task that does not exist
NoSession ==
    [pc |-> "none", attempts |-> 0, addr_data |-> <<>>, new_peers |-> <<>>,
     handler |-> FALSE, after |-> "none", result |-> None,
     sock |-> "none", cause |-> "none", log |-> <<>>]

\* a task gather has just created from the coroutine
NewSession == [NoSession EXCEPT !.pc = "queued"]

\* sessions between the acquisition and the release of the semaphore
InFlight == {e \in Endpoints : sess[e].pc \notin {"none", "queued", "done"}}

(***************************************************************************)
(* The network.  In the wild a remote may do anything at every await.  A   *)
(* mock network is a scenario: a number of seeds that all accept the       *)
(* connection, complete the handshake, answer getaddr at once with one     *)
(* addr frame of a number of new routable peers in the IPv4-mapped form,   *)
(* then stay silent; nothing fails.  All the endpoints of a mock behave    *)
(* alike, and the lists made of its sets are taken in the order of the     *)
(* endpoints' numbers.                                                     *)
(***************************************************************************)
Wild == [kind |-> "wild", name |-> "wild", seeds |-> 0, peers |-> 0, max_nodes |-> 0]

Mock(name, seeds, peers, mn) ==
    [kind |-> "mock", name |-> name, seeds |-> seeds, peers |-> peers,
     max_nodes |-> mn]

\* S5: one seed advertising 3 peers.  S6: 5 seeds, 2 peers each, max_nodes
\* 50.  "many": as S6 with enough seeds for the buffer to pass the threshold
\* of the progress callback.
\* "twice": one seed that answers getaddr with one addr frame of one address
\* the parser accepts, and sends a ping frame that the next read delivers.
\* "coalesced": one seed whose version and verack frames arrive in one read,
\* nothing following until getaddr.  "behind": one seed whose verack frame
\* arrives in the second read behind a ping frame.
\* "noversion": one seed whose answer to the version message is anything but
\* bytes that start with a version frame: the end of the stream, silence, a
\* reset, a frame of another command or network, a frame cut short; closing
\* the socket to it may raise.  max_nodes is 2, so that the loop goes on after
\* the session.
Scenarios ==
    {Mock("S5", 1, 3, mn) : mn \in 1..MaxNodesBound}
    \cup {Mock("S6", 5, 2, 50), Mock("many", VizThreshold + 2, 2, 50)}
    \cup {Mock("coalesced", 1, 1, 1), Mock("behind", 1, 1, 1)}
    \cup {Mock("twice", 1, 1, 1)}
    \cup {Mock("noversion", 1, 0, 2)}

MockEndpoints(scn) == {MockSeed(i) : i \in 1..scn.seeds}

\* the addr frame the mock peer e answers getaddr with
MockAddrFrame(e) ==
    AddrFrame(AddrPayload([j \in 1..remote.peers |->
                              MappedRecord(MockPeer(e[1][4], j))]))

(***************************************************************************)
(* __init__                                                                *)
(***************************************************************************)
\* no function of the codec was called directly
NoCall == [op |-> "none", given |-> <<>>, input |-> <<>>, output |-> <<>>]

\* database.py, lines 15-43: the nodes table is created empty, no row id was
\* ever given; insert_nodes_batch was not called
init_database ==
    [nodes |-> {}, seq |-> 0,
     call |-> [batch |-> <<>>, fault |-> "none", error |-> "none",
               raised |-> FALSE]]

Constructed(network, endpoints) ==
    /\ remote = network
    /\ codec = NoCall
    /\ database = init_database
    /\ sess = [e \in endpoints |-> NoSession]
    /\ max_concurrent \in 1..MaxConcurrentBound
    /\ semaphore = max_concurrent
    /\ discovered_nodes = {}
    /\ crawled_nodes = {}
    /\ node_data = <<>>
    /\ failed_nodes = {}
    /\ max_nodes = 0
    /\ has_callback = FALSE
    /\ last_viz_update = 0
    /\ to_crawl = {}
    /\ spc = "init"
    /\ conn_attempts = [e \in endpoints |-> 0]
    /\ viz_calls = 0
    /\ data_reads = 0
    /\ exit_cause = "none"
    /\ iteration = 0

Init == Constructed(Wild, WildEndpoints)

MockInit == \E scn \in Scenarios : Constructed(scn, MockEndpoints(scn))

(***************************************************************************)
(* crawl: the seed phase (lines 249-255)                                   *)
(***************************************************************************)
AcceptedSeeds(seed_nodes) ==
    {seed_nodes[i] : i \in {j \in 1..Len(seed_nodes) : ~is_private_ip(seed_nodes[j][1])}}

\* the arguments of crawl: any in the wild, the scenario's against a mock
CrawlInputs ==
    IF remote.kind = "wild"
    THEN {[seed_nodes |-> s, max_nodes |-> mn, cb |-> cb] :
            s \in SeqsUpTo(SeedUniverse, MaxSeeds), mn \in 0..MaxNodesBound,
            cb \in BOOLEAN}
    ELSE {[seed_nodes |-> [i \in 1..remote.seeds |-> MockSeed(i)],
           max_nodes |-> remote.max_nodes, cb |-> cb] : cb \in BOOLEAN}

Crawl ==
    /\ spc = "init"
    /\ \E args \in CrawlInputs :
        /\ discovered_nodes' = discovered_nodes \cup AcceptedSeeds(args.seed_nodes)
        /\ max_nodes' = args.max_nodes
        /\ has_callback' = args.cb
    /\ last_viz_update' = 0
    /\ iteration' = 0
    /\ spc' = "loop"
    /\ UNCHANGED <<remote, codec, database, max_concurrent, semaphore, crawled_nodes, failed_nodes, node_data,
                   to_crawl, sess, conn_attempts, viz_calls, exit_cause, data_reads>>

(***************************************************************************)
(* crawl: the scheduler loop (lines 257-288) and the return (290-297)      *)
(***************************************************************************)
\* mutant: the loop also stops once a session has failed
LoopCond_StopOnFailure ==
    /\ Cardinality(crawled_nodes) < max_nodes
    /\ discovered_nodes # {}
    /\ failed_nodes = {}

\* the while condition of line 257
LoopCond ==
    /\ Cardinality(crawled_nodes) < max_nodes
    /\ discovered_nodes # {}

\* the sequences without repetition of n elements of S (all of S when it has
\* fewer): what list(S)[:n] can be, the order of a set being arbitrary
ListPrefixes(S, n) ==
    LET k == IF Cardinality(S) < n THEN Cardinality(S) ELSE n
    IN  {q \in [1..k -> S] : \A i, j \in 1..k : i # j => q[i] # q[j]}

\* the n endpoints of S of least number (all of S when it has fewer), in the
\* order of their numbers
RECURSIVE ByNumber(_, _)
ByNumber(S, n) ==
    IF S = {} \/ n = 0 THEN <<>>
    ELSE LET e == CHOOSE x \in S : \A y \in S : x[1][4] <= y[1][4]
         IN  <<e>> \o ByNumber(S \ {e}, n - 1)

\* list(S)[:n]: any order in the wild, the order of the numbers on a mock
Listed(S, n) ==
    IF remote.kind = "wild" THEN ListPrefixes(S, n) ELSE {ByNumber(S, n)}

\* mutant: the slice takes one endpoint too many
Selections_OneMore == Listed(discovered_nodes \ crawled_nodes, max_concurrent + 1)

\* mutant: the batch is taken from every endpoint heard of, accepted or not
Selections_Unfiltered == Listed(Endpoints \ crawled_nodes, max_concurrent)

\* line 261
Selections == Listed(discovered_nodes \ crawled_nodes, max_concurrent)

\* one iteration up to the await of gather: select the batch, create its
\* tasks.  The order of the list to_crawl is arbitrary and is read only when
\* the results are collected: the state keeps the endpoints of the batch, and
\* GatherDone draws the order.
LoopIterate ==
    /\ spc = "loop"
    /\ LoopCond
    /\ \E q \in Selections :
        /\ q # <<>>
        /\ to_crawl' = SeqToSet(q)
        /\ sess' = [e \in Endpoints |->
                      IF e \in SeqToSet(q) THEN NewSession ELSE sess[e]]
    /\ iteration' = iteration + 1
    /\ spc' = "gather"
    /\ UNCHANGED <<remote, codec, database, max_concurrent, semaphore, discovered_nodes, crawled_nodes,
                   failed_nodes, node_data, max_nodes, has_callback,
                   last_viz_update, conn_attempts, viz_calls, exit_cause, data_reads>>

\* mutant: the callback is called after every batch
LoopCallback_EveryBatch(buffer, raised) ==
    IF has_callback
    THEN [called |-> TRUE, last |-> IF raised THEN last_viz_update ELSE Len(buffer)]
    ELSE [called |-> FALSE, last |-> last_viz_update]

\* the callback is called when due and may raise; raised is what it does
\* lines 278-283
LoopCallback(buffer, raised) ==
    IF has_callback /\ Len(buffer) - last_viz_update >= VizThreshold
    THEN [called |-> TRUE, last |-> IF raised THEN last_viz_update ELSE Len(buffer)]
    ELSE [called |-> FALSE, last |-> last_viz_update]

\* mutant: the collection stops at the first task that returned no record
RECURSIVE Collected_StopAtNone(_)
Collected_StopAtNone(q) ==
    IF q = <<>> \/ sess[Head(q)].result = None THEN <<>>
    ELSE <<sess[Head(q)].result>> \o Collected_StopAtNone(Tail(q))

\* mutant: an exception of the callback leaves crawl
AfterCallback_Propagated(raised) == IF raised THEN "raised" ELSE "loop"

\* lines 279-283: the call is in a try that catches Exception and logs it, so
\* the iteration goes on to its end whether the callback raised or not
AfterCallback(raised) == "loop"

\* the records of the tasks of q, in the order of q (lines 269-274)
RECURSIVE Collected(_)
Collected(q) ==
    IF q = <<>> THEN <<>>
    ELSE (IF sess[Head(q)].result # None THEN <<sess[Head(q)].result>> ELSE <<>>)
         \o Collected(Tail(q))

\* gather returns when every task of the batch is done; the rest of the
\* iteration follows without another task running, and the tasks of the
\* batch are gone
GatherDone ==
    /\ spc = "gather"
    /\ \A e \in to_crawl : sess[e].pc = "done"
    /\ \E q \in Listed(to_crawl, Cardinality(to_crawl)) :
        node_data' = node_data \o Collected(q)
    /\ \E raised \in BOOLEAN :
        LET cbk == LoopCallback(node_data', raised)
        IN  /\ last_viz_update' = cbk.last
            /\ viz_calls' = IF cbk.called THEN viz_calls + 1 ELSE viz_calls
            /\ spc' = IF cbk.called THEN AfterCallback(raised) ELSE "loop"
    /\ sess' = [e \in Endpoints |->
                  IF e \in to_crawl THEN NoSession ELSE sess[e]]
    /\ to_crawl' = {}
    /\ UNCHANGED <<remote, codec, database, iteration, max_concurrent, semaphore, discovered_nodes, crawled_nodes,
                   failed_nodes, max_nodes, has_callback, conn_attempts,
                   exit_cause, data_reads>>

\* the loop is left by the while condition or by the break of line 264,
\* which an iteration reaches after it was counted (258); the final callback
\* (290-294) runs and crawl returns node_data
LoopExit ==
    /\ spc = "loop"
    /\ ~(LoopCond /\ Selections # {<<>>})
    /\ exit_cause' = IF ~LoopCond THEN "while" ELSE "break"
    /\ viz_calls' = IF has_callback /\ Len(node_data) > last_viz_update
                    THEN viz_calls + 1 ELSE viz_calls
    /\ iteration' = IF LoopCond THEN iteration + 1 ELSE iteration
    /\ spc' = "done"
    /\ UNCHANGED <<remote, codec, database, max_concurrent, semaphore, discovered_nodes, crawled_nodes,
                   failed_nodes, node_data, max_nodes, has_callback,
                   last_viz_update, to_crawl, sess, conn_attempts, data_reads>>

(***************************************************************************)
(* connect_to_node: one peer session.  pc names the await the task is      *)
(* suspended at:                                                           *)
(*   queued        the semaphore (line 40)                                 *)
(*   connecting    open_connection (47-50)                                 *)
(*   send_version  writer.drain() after the version message (54)           *)
(*   read_version  the first read (57-60)                                  *)
(*   send_verack   writer.drain() after verack (75)                        *)
(*   read_verack   the second read (77-80)                                 *)
(*   send_getaddr  writer.drain() after getaddr (95)                       *)
(*   drain         a read of the drain loop (106-109)                      *)
(*   closing       writer.wait_closed(), after writer.close()              *)
(* sock is the state of the session's socket, cause the first reason for   *)
(* which the session goes without a record: "transport" (connect, read or  *)
(* write failed or timed out), "protocol" (end of stream, wrong or         *)
(* malformed frame) or "close" (wait_closed raised).                       *)
(***************************************************************************)
SessVars(e, s) == sess' = [sess EXCEPT ![e] = s]

\* mutant: the endpoint is not recorded as crawled
MarkCrawled_Forgotten(e) == crawled_nodes

\* line 44
MarkCrawled(e) == crawled_nodes \cup {e}

\* mutant: the semaphore lets every task in and keeps no count
SemAfterAcquire_NoGate(n) == n

\* the permits left after one acquisition
SemAfterAcquire(n) == n - 1

\* asyncio.Semaphore.acquire returns without waiting when a permit is free
SemFree(n) == n > 0

\* lines 40-50: the task gets the semaphore, returns None for an endpoint
\* already crawled, else records it as crawled and calls open_connection
Acquire(e) ==
    /\ sess[e].pc = "queued"
    /\ SemFree(semaphore)
    /\ IF e \in crawled_nodes
       THEN /\ SessVars(e, [sess[e] EXCEPT !.pc = "done", !.cause = "skipped"])
            /\ UNCHANGED <<semaphore, crawled_nodes, conn_attempts>>
       ELSE /\ semaphore' = SemAfterAcquire(semaphore)
            /\ crawled_nodes' = MarkCrawled(e)
            /\ conn_attempts' = [conn_attempts EXCEPT ![e] = @ + 1]
            /\ SessVars(e, [sess[e] EXCEPT !.pc = "connecting"])
    /\ UNCHANGED <<remote, codec, database, iteration, max_concurrent, discovered_nodes, failed_nodes, node_data,
                   max_nodes, has_callback, last_viz_update, to_crawl, spc,
                   viz_calls, exit_cause, data_reads>>

\* the session returns res: the async with block is left, the permit is given
\* back, the task is done
Return(e, s, res) ==
    /\ SessVars(e, [s EXCEPT !.pc = "done", !.result = res, !.new_peers = <<>>,
                             !.handler = FALSE, !.after = "none", !.log = <<>>])
    /\ semaphore' = semaphore + 1

\* mutant: the handlers of the outer try return None and record nothing
OuterExcept_NotRecorded(e) == failed_nodes

\* lines 192-198: the handlers of the outer try
OuterExcept(e) == failed_nodes \cup {e}

\* mutant: a handler of the outer try returns a record of the endpoint
OuterReturn_Record(e, s) ==
    [ip |-> e[1], port |-> e[2], peers_discovered |-> Len(s.new_peers)]

\* lines 194 and 198: what the handlers of the outer try return
OuterReturn(e, s) == None

\* how open_connection can end; a mock accepts
ConnectOutcomes ==
    IF remote.kind = "wild" THEN {"ok", "timeout", "refused", "oserror", "error"}
    ELSE {"ok"}

\* whether an awaited drain or wait_closed ends without an exception; on a
\* mock it does, but for the one whose socket may raise
AwaitOutcomes ==
    IF remote.kind = "wild" \/ remote.name = "noversion" THEN BOOLEAN ELSE {TRUE}

\* an entry of the log of a session: a frame written (out) or accepted (in)
Out(cmd) == [dir |-> "out", cmd |-> cmd]
In(cmd) == [dir |-> "in", cmd |-> cmd]

\* open_connection completes (47-50); on success the version message is
\* written (52-53) and the task awaits drain
Connect(e) ==
    /\ sess[e].pc = "connecting"
    /\ \E outcome \in ConnectOutcomes :
        IF outcome = "ok"
        THEN /\ SessVars(e, [sess[e] EXCEPT !.pc = "send_version", !.sock = "open",
                                            !.log = <<Out(CmdVersion)>>])
             /\ UNCHANGED <<semaphore, failed_nodes>>
        ELSE /\ failed_nodes' = OuterExcept(e)
             /\ Return(e, [sess[e] EXCEPT !.cause = "transport"],
                       OuterReturn(e, sess[e]))
    /\ UNCHANGED <<remote, codec, database, iteration, max_concurrent, discovered_nodes, crawled_nodes, node_data,
                   max_nodes, has_callback, last_viz_update, to_crawl, spc,
                   conn_attempts, viz_calls, exit_cause, data_reads>>

\* drain of the version message completes (54); an error of the transport is
\* raised outside the inner try and reaches the handlers of the outer one
SendVersion(e) ==
    /\ sess[e].pc = "send_version"
    /\ \E ok \in AwaitOutcomes :
        IF ok
        THEN /\ SessVars(e, [sess[e] EXCEPT !.pc = "read_version"])
             /\ UNCHANGED <<semaphore, failed_nodes>>
        ELSE /\ failed_nodes' = OuterExcept(e)
             /\ Return(e, [sess[e] EXCEPT !.cause = "transport"],
                       OuterReturn(e, sess[e]))
    /\ UNCHANGED <<remote, codec, database, iteration, max_concurrent, discovered_nodes, crawled_nodes, node_data,
                   max_nodes, has_callback, last_viz_update, to_crawl, spc,
                   conn_attempts, viz_calls, exit_cause, data_reads>>

\* writer.close() followed by the await of wait_closed, in the body of the
\* inner try (handler FALSE) or in one of its handlers (handler TRUE); after
\* says what follows the close: the record, or return None
StartClose(s, inHandler, what, why) ==
    [s EXCEPT !.pc = "closing", !.sock = "closed", !.handler = inHandler,
              !.after = what,
              !.cause = IF s.cause = "none" THEN why ELSE s.cause,
              \* locals the session does not read again
              !.attempts = 0, !.addr_data = <<>>,
              !.new_peers = IF what = "record" THEN @ ELSE <<>>,
              !.log = IF what = "record" THEN @ ELSE <<>>]

\* what a read of the handshake can end with: anything in the wild, the
\* expected frame on a mock
HandshakeEvents(expect) ==
    IF remote.kind = "wild" THEN ReadEvents(HandshakeChunks)
    ELSE IF remote.name = "coalesced"
    THEN {IF expect = CmdVersion
          THEN [kind |-> "data", data |-> VersionFrame \o VerackFrame]
          ELSE [kind |-> "timeout", data |-> <<>>]}
    ELSE IF remote.name = "noversion"
    THEN {ev \in ReadEvents(HandshakeChunks) :
            ev.kind = "data" =>
                \/ parse_message(ev.data) = None
                \/ parse_message(ev.data).cmd # CmdVersion}
    ELSE IF remote.name = "behind"
    THEN {[kind |-> "data",
           data |-> IF expect = CmdVersion THEN VersionFrame
                    ELSE PingFrame \o VerackFrame]}
    ELSE {[kind |-> "data",
           data |-> IF expect = CmdVersion THEN VersionFrame ELSE VerackFrame]}

\* mutant: any well-formed frame is taken for the expected one
Rejected_OnlyUnparsed(msg, expect) == msg = None

\* lines 68 and 88: not msg or msg[0] != expect
Rejected(msg, expect) == msg = None \/ msg.cmd # expect

\* a read of the handshake completes (57-71 with expect = version, 77-91
\* with expect = verack); when the frame is accepted the session writes the
\* message reply and awaits its drain, at next
HandshakeRead(e, at, expect, reply, next) ==
    /\ sess[e].pc = at
    /\ \E ev \in HandshakeEvents(expect) :
        LET response == ev.data
            msg == parse_message(response)
        IN  SessVars(e,
              IF ev.kind = "timeout"
              THEN StartClose(sess[e], TRUE, "none", "transport")
              ELSE IF ev.kind = "error"
              THEN StartClose(sess[e], TRUE, "none", "transport")
              ELSE IF response = <<>>
              THEN StartClose(sess[e], FALSE, "none", "protocol")
              ELSE IF Rejected(msg, expect)
              THEN StartClose(sess[e], FALSE, "none", "protocol")
              ELSE [sess[e] EXCEPT !.pc = next,
                                   !.log = @ \o <<In(msg.cmd), Out(reply)>>])
    /\ UNCHANGED <<remote, codec, database, iteration, max_concurrent, semaphore, discovered_nodes, crawled_nodes,
                   failed_nodes, node_data, max_nodes, has_callback,
                   last_viz_update, to_crawl, spc, conn_attempts, viz_calls,
                   exit_cause, data_reads>>

ReadVersion(e) ==
    HandshakeRead(e, "read_version", CmdVersion, CmdVerack, "send_verack")

ReadVerack(e) ==
    HandshakeRead(e, "read_verack", CmdVerack, CmdGetaddr, "send_getaddr")

\* drain of verack (75) or of getaddr (95, then the sleep of 102) completes;
\* an error is caught by the inner try
HandshakeSend(e, at, next) ==
    /\ sess[e].pc = at
    /\ \E ok \in AwaitOutcomes :
        SessVars(e, IF ok THEN [sess[e] EXCEPT !.pc = next]
                    ELSE StartClose(sess[e], TRUE, "none", "transport"))
    /\ UNCHANGED <<remote, codec, database, iteration, max_concurrent, semaphore, discovered_nodes, crawled_nodes,
                   failed_nodes, node_data, max_nodes, has_callback,
                   last_viz_update, to_crawl, spc, conn_attempts, viz_calls,
                   exit_cause, data_reads>>

SendVerack(e) == HandshakeSend(e, "send_verack", "read_verack")

SendGetaddr(e) == HandshakeSend(e, "send_getaddr", "drain")

\* lines 147-160: after the drain loop, the salvage pass, then writer.close()
\* and the await of wait_closed in the body of the inner try
AfterDrain(s) ==
    StartClose([s EXCEPT !.new_peers = Salvage(s.addr_data, s.new_peers)],
               FALSE, "record", "none")

\* mutant: the loop goes on while attempts <= max_attempts
NextAttempt_OneMore(s) ==
    LET t == [s EXCEPT !.attempts = @ + 1]
    IN  IF t.attempts <= max_attempts THEN t ELSE AfterDrain(t)

\* lines 111-113, 136-137, 139-142: attempts += 1, then the while test
NextAttempt(s) ==
    LET t == [s EXCEPT !.attempts = @ + 1]
    IN  IF t.attempts < max_attempts THEN t ELSE AfterDrain(t)

\* line 133
EarlyExit(s) == s.new_peers # <<>> /\ s.attempts >= 2

\* lines 114-137: a chunk is appended and addr_data is decoded from offset 0
OnChunk(s, chunk) ==
    LET data == s.addr_data \o chunk
        t == [s EXCEPT !.addr_data = data,
                       !.new_peers = DrainParse(data, 0, s.new_peers)]
    IN  IF EarlyExit(t) THEN AfterDrain(t) ELSE NextAttempt(t)

\* what a read of the drain can end with.  In the wild: anything, the
\* non-empty chunks of a crawl being MaxDataReads at most.  On a mock: the
\* addr frame of the peer at the first read, a timeout afterwards.
DrainEvents(e) ==
    IF remote.kind = "wild"
    THEN {ev \in ReadEvents(DrainChunks) :
            ev.data # <<>> => data_reads < MaxDataReads}
    ELSE IF remote.name = "twice"
    THEN {IF sess[e].addr_data = <<>>
          THEN [kind |-> "data", data |-> AddrFrame(AddrPayload(<<OddRecord>>))]
          ELSE IF sess[e].attempts = 1
          THEN [kind |-> "data", data |-> PingFrame]
          ELSE [kind |-> "timeout", data |-> <<>>]}
    ELSE IF sess[e].addr_data = <<>>
    THEN {[kind |-> "data", data |-> MockAddrFrame(e)]}
    ELSE {[kind |-> "timeout", data |-> <<>>]}

\* one read of the drain loop completes (104-145)
DrainRead(e) ==
    /\ sess[e].pc = "drain"
    /\ sess[e].attempts < max_attempts
    /\ \E ev \in DrainEvents(e) :
        /\ data_reads' = IF remote.kind = "wild" /\ ev.data # <<>>
                         THEN data_reads + 1 ELSE data_reads
        /\ SessVars(e,
              IF ev.kind = "timeout" THEN NextAttempt(sess[e])
              ELSE IF ev.kind = "error" THEN AfterDrain(sess[e])
              ELSE IF ev.data = <<>> THEN NextAttempt(sess[e])
              ELSE OnChunk(sess[e], ev.data))
    /\ UNCHANGED <<remote, codec, database, iteration, max_concurrent, semaphore, discovered_nodes, crawled_nodes,
                   failed_nodes, node_data, max_nodes, has_callback,
                   last_viz_update, to_crawl, spc, conn_attempts, viz_calls,
                   exit_cause>>

\* lines 162-170
NodeInfo(e, s) ==
    [ip |-> e[1], port |-> e[2], peers_discovered |-> Len(s.new_peers)]

\* lines 172-175: the peers the session adds to discovered_nodes
Offered(new_peers) ==
    {p \in SeqToSet(new_peers) :
        /\ ~is_private_ip(p[1])
        /\ p \notin discovered_nodes
        /\ p \notin crawled_nodes}

\* wait_closed completes.  In the body of the inner try: the session goes on
\* to its record and its offers (162-180) or returns None; an exception is
\* caught by the inner try, whose handler closes again (186-190).  In a
\* handler of the inner try: the session returns None; an exception reaches
\* the handlers of the outer try (192-198).
Close(e) ==
    /\ sess[e].pc = "closing"
    /\ \E ok \in AwaitOutcomes :
        IF ok
        THEN /\ failed_nodes' = failed_nodes
             /\ IF sess[e].after = "record"
                THEN /\ discovered_nodes' =
                            discovered_nodes \cup Offered(sess[e].new_peers)
                     /\ Return(e, [sess[e] EXCEPT !.cause = "record"],
                               NodeInfo(e, sess[e]))
                ELSE /\ discovered_nodes' = discovered_nodes
                     /\ Return(e, sess[e], None)
        ELSE IF ~sess[e].handler
        THEN /\ SessVars(e, StartClose(sess[e], TRUE, "none", "close"))
             /\ UNCHANGED <<semaphore, discovered_nodes, failed_nodes>>
        ELSE /\ failed_nodes' = OuterExcept(e)
             /\ discovered_nodes' = discovered_nodes
             /\ Return(e, sess[e], OuterReturn(e, sess[e]))
    /\ UNCHANGED <<remote, codec, database, iteration, max_concurrent, crawled_nodes, node_data, max_nodes,
                   has_callback, last_viz_update, to_crawl, spc, conn_attempts,
                   viz_calls, exit_cause, data_reads>>

(***************************************************************************)
(* The crawler: one crawl on a fresh BitcoinNodeCrawler.                   *)
(***************************************************************************)
Next ==
    \/ Crawl
    \/ LoopIterate
    \/ GatherDone
    \/ LoopExit
    \/ \E e \in Endpoints : Acquire(e)
    \/ \E e \in Endpoints : Connect(e)
    \/ \E e \in Endpoints : SendVersion(e)
    \/ \E e \in Endpoints : ReadVersion(e)
    \/ \E e \in Endpoints : SendVerack(e)
    \/ \E e \in Endpoints : ReadVerack(e)
    \/ \E e \in Endpoints : SendGetaddr(e)
    \/ \E e \in Endpoints : DrainRead(e)
    \/ \E e \in Endpoints : Close(e)

Spec == Init /\ [][Next]_vars

\* a crawl against a mock network
MockSpec == MockInit /\ [][Next]_vars

(***************************************************************************)
(* A caller that keeps its crawler and calls crawl on it again.            *)
(***************************************************************************)
\* crawl is entered after an earlier call on the same object has returned:
\* lines 249-255 run on the sets and the buffer as that call left them, for
\* crawl assigns none of them (the only assignments are those of __init__,
\* lines 34-37).  viz_calls and exit_cause observe the call in progress.
CrawlAgain ==
    /\ spc = "done"
    /\ \E args \in CrawlInputs :
        /\ discovered_nodes' = discovered_nodes \cup AcceptedSeeds(args.seed_nodes)
        /\ max_nodes' = args.max_nodes
        /\ has_callback' = args.cb
    /\ last_viz_update' = 0
    /\ iteration' = 0
    /\ viz_calls' = 0
    /\ exit_cause' = "none"
    /\ spc' = "loop"
    /\ UNCHANGED <<remote, codec, database, max_concurrent, semaphore, crawled_nodes, failed_nodes, node_data,
                   to_crawl, sess, conn_attempts, data_reads>>

AgainNext ==
    \/ Next
    \/ CrawlAgain

\* any number of crawl calls, one after the other, on one crawler
AgainSpec == Init /\ [][AgainNext]_vars

(***************************************************************************)
(* The codec called directly: bitcoin_protocol.py as a library.  codec     *)
(* holds the last call: the function, what the input was built from, the   *)
(* input and the output.                                                   *)
(***************************************************************************)
crawlerVars ==
    <<max_concurrent, semaphore, discovered_nodes, crawled_nodes, failed_nodes,
      node_data, max_nodes, has_callback, last_viz_update, to_crawl, spc, sess,
      conn_attempts, viz_calls, data_reads, exit_cause, iteration, remote>>

\* an address of an addr record: kind says how its 16 bytes are made
MappedAddr(ep) == [kind |-> "mapped", ep |-> ep]
CodecAddrs ==
    {MappedAddr(PrivEp), MappedAddr(R3),
     [kind |-> "ipv6", ep |-> R3], [kind |-> "twelve", ep |-> R3]}

AddrBytes(a) ==
    IF a.kind = "mapped" THEN ipv6_format(a.ep[1])
    ELSE IF a.kind = "ipv6" THEN PureIPv6
    ELSE TwelveZeroForm(a.ep[1][1], a.ep[1][2])

\* the 30-byte record of the i-th address of a list, with timestamp i
RecordOf(addrs, i) == AddrRecord(i, AddrBytes(addrs[i]), addrs[i].ep[2])

\* parse_addr_message is called on the payload of a list of addresses
CallParseAddr ==
    /\ \E addrs \in SeqsUpTo(CodecAddrs, MaxAddrPeers) :
        LET payload == AddrPayload([i \in 1..Len(addrs) |-> RecordOf(addrs, i)])
        IN  codec' = [op |-> "parse_addr_message", given |-> addrs,
                      input |-> payload, output |-> parse_addr_message(payload)]
    /\ UNCHANGED <<crawlerVars, database>>

\* the lists of addresses payloads are cut from: accepted and pure IPv6
\* addresses in turn, starting with either
CutAddr(i) ==
    IF i % 2 = 1 THEN [kind |-> "twelve", ep |-> R3] ELSE [kind |-> "ipv6", ep |-> R3]
CutLists ==
    {[i \in 1..n |-> CutAddr(i + first)] : n \in 0..MaxAddrPeers, first \in 0..1}

\* the counts written before a list of n records: n, one more, and counts
\* above 1000 in the three-byte and in the nine-byte form
CutCounts(n) == {Wide(n), Wide(n + 1), Wide(MaxAddrCount + 1),
                 <<65535, 65535, 65535, 65535>>}

\* the lengths a payload of length len with a count of hdr bytes is cut to:
\* nothing, inside the count, before the first record, inside and after it,
\* inside the last record, and the whole
CutLengths(len, hdr) ==
    {0, hdr - 1, hdr, hdr + 15, hdr + AddrRecordLen, len - 1, len} \cap 0..len

\* parse_addr_message is called on the first bytes of a payload made of a
\* count and a list of records
CallParseAddrCut ==
    /\ \E addrs \in CutLists :
        \E count \in CutCounts(Len(addrs)) :
            LET hdr == Len(varint_encode(count))
                payload == varint_encode(count)
                           \o Concat([i \in 1..Len(addrs) |-> RecordOf(addrs, i)])
            IN  \E cut \in CutLengths(Len(payload), hdr) :
                    codec' = [op |-> "parse_addr_cut",
                              given |-> [addrs |-> addrs, count |-> count,
                                         hdr |-> hdr],
                              input |-> Slice(payload, 0, cut),
                              output |-> parse_addr_message(Slice(payload, 0, cut))]
    /\ UNCHANGED <<crawlerVars, database>>

\* a payload of n records the parser accepts, the k-th with timestamp k,
\* behind a count
LongRecord(k) == AddrRecord(k, TwelveZeroForm(8, 9), 8333)
LongPayload(count, n) ==
    varint_encode(count)
    \o [i \in 1..(AddrRecordLen * n) |->
           LongRecord(((i - 1) \div AddrRecordLen) + 1)[((i - 1) % AddrRecordLen) + 1]]

\* parse_addr_message is called, first of all calls, on a payload of more
\* than 1000 records, behind a count that is below, at or above 1000
CallParseAddrLong ==
    /\ codec.op = "none"
    /\ \E count \in {Wide(MaxAddrCount - 1), Wide(MaxAddrCount),
                      Wide(MaxAddrCount + 1), <<0, 1, 0, 0>>} :
        LET payload == LongPayload(count, MaxAddrCount + 1)
        IN  codec' = [op |-> "parse_addr_long",
                      given |-> [count |-> count, records |-> MaxAddrCount + 1],
                      input |-> payload,
                      output |-> parse_addr_message(payload)]
    /\ UNCHANGED <<crawlerVars, database>>

\* the commands and payloads frames are made of
CodecCommands == {CmdVersion, CmdVerack, CmdGetaddr, CmdAddr, CmdPing}
CodecPayloads ==
    {Zeros(n) : n \in 0..MaxCodecPayload}
    \cup {[i \in 1..n |-> i] : n \in 1..MaxCodecPayload}
    \cup {AddrPayload(<<MappedRecord(R3)>>)}

\* create_message is called
CallCreateMessage ==
    /\ \E magic \in {MAINNET_MAGIC, TESTNET_MAGIC, REGTEST_MAGIC},
          command \in CodecCommands, payload \in CodecPayloads :
        codec' = [op |-> "create_message",
                  given |-> [magic |-> magic, command |-> command,
                             payload |-> payload],
                  input |-> <<>>,
                  output |-> create_message(command, payload, magic)]
    /\ UNCHANGED <<crawlerVars, database>>

\* parse_message is called on the frame create_message has returned
CallParseMessage ==
    /\ codec.op = "create_message"
    /\ codec' = [op |-> "parse_message", given |-> codec.given,
                 input |-> codec.output, output |-> parse_message(codec.output)]
    /\ UNCHANGED <<crawlerVars, database>>

\* the ways a frame is damaged before it is parsed.  Truncations leave less
\* than the frame: a part of the header, or the frame without its last byte.
\* Corruptions leave 24 + length bytes or more that are no frame of the
\* network: another magic, a length field above 2 MiB, another checksum.
Truncations == {"header", "body"}
Corruptions == {"magic", "length", "checksum"}

Damaged(frame, damage) ==
    IF damage = "header" THEN Slice(frame, 0, 10)
    ELSE IF damage = "body" THEN Slice(frame, 0, Len(frame) - 1)
    ELSE IF damage = "magic" THEN TESTNET_MAGIC \o Slice(frame, 4, Len(frame))
    ELSE IF damage = "length"
    THEN Slice(frame, 0, 16) \o <<0, 0, 33, 0>> \o Slice(frame, 20, Len(frame))
    ELSE Slice(frame, 0, 20) \o <<(frame[21] + 1) % 256>>
         \o Slice(frame, 21, Len(frame))

\* parse_message is called on a damaged copy of a frame of the main network
CallParseDamaged ==
    /\ codec.op \in {"create_message", "parse_damaged"}
    /\ codec.given.magic = MAINNET_MAGIC
    /\ \E damage \in Truncations \cup Corruptions :
        LET frame == create_message(codec.given.command, codec.given.payload,
                                    codec.given.magic)
        IN  codec' = [op |-> "parse_damaged",
                      given |-> [magic |-> codec.given.magic,
                                 command |-> codec.given.command,
                                 payload |-> codec.given.payload,
                                 damage |-> damage],
                      input |-> Damaged(frame, damage),
                      output |-> parse_message(Damaged(frame, damage))]
    /\ UNCHANGED <<crawlerVars, database>>

(***************************************************************************)
(* The version payload.  A str is the sequence of its code points (below   *)
(* 0x800 in the model), bytes are what str.encode('utf-8') makes of them.  *)
(***************************************************************************)
\* str.encode('utf-8'): one byte below 0x80, two bytes below 0x800
RECURSIVE utf8_encode(_)
utf8_encode(str) ==
    IF str = <<>> THEN <<>>
    ELSE (IF Head(str) < 128 THEN <<Head(str)>>
          ELSE <<192 + (Head(str) \div 64), 128 + (Head(str) % 64)>>)
         \o utf8_encode(Tail(str))

\* bytes.decode('utf-8', errors='ignore') of such bytes: a byte that starts
\* no valid sequence is dropped
RECURSIVE utf8_decode_ignore(_)
utf8_decode_ignore(b) ==
    IF b = <<>> THEN <<>>
    ELSE IF b[1] < 128 THEN <<b[1]>> \o utf8_decode_ignore(Tail(b))
    ELSE IF b[1] \in 194..223 /\ Len(b) >= 2 /\ b[2] \in 128..191
    THEN <<(b[1] - 192) * 64 + (b[2] - 128)>> \o utf8_decode_ignore(Tail(Tail(b)))
    ELSE utf8_decode_ignore(Tail(b))

\* encode_ip of create_version_message (lines 78-81); the services are those
\* of the enclosing call
encode_ip(services, ip_parts, port) ==
    pack_Q_wide(services) \o ipv6_format(ip_parts) \o pack_H_be(port)

\* the payload create_version_message builds (lines 83-91) from its
\* arguments a; the length written before the user agent is len(user_agent),
\* the number of characters of the str
create_version_payload(a) ==
    pack_I(a.version)
    \o pack_Q_wide(a.services)
    \o pack_Q_wide(a.timestamp)
    \o encode_ip(a.services, a.addr_recv[1], a.addr_recv[2])
    \o encode_ip(a.services, a.addr_from[1], a.addr_from[2])
    \o pack_Q_wide(a.nonce)
    \o varint_encode(Wide(Len(a.user_agent))) \o utf8_encode(a.user_agent)
    \o pack_I(a.start_height)
    \o <<IF a.relay THEN 1 ELSE 0>>

\* a dict of _parse_version_payload: its keys and their values
VersionInfo(keys, version, services, timestamp, user_agent) ==
    [keys |-> keys, version |-> version, services |-> services,
     timestamp |-> timestamp, user_agent |-> user_agent]

\* mutant: a user agent whose end is missing is returned as far as it goes
UserAgentAt_Partial(payload, offset) ==
    IF offset >= Len(payload) THEN <<>>
    ELSE LET r == varint_decode(payload, offset)
         IN  IF r = ValueError THEN <<>>
             ELSE IF WideLeq(r.value, Wide(Len(payload) - r.offset))
             THEN utf8_decode_ignore(Slice(payload, r.offset,
                                           r.offset + Narrow(r.value)))
             ELSE utf8_decode_ignore(Slice(payload, r.offset, Len(payload)))

\* lines 228-235: the user agent read at offset, '' when the length does not
\* decode or reaches past the payload
UserAgentAt(payload, offset) ==
    IF offset >= Len(payload) THEN <<>>
    ELSE LET r == varint_decode(payload, offset)
         IN  IF r = ValueError THEN <<>>
             ELSE IF WideLeq(r.value, Wide(Len(payload) - r.offset))
             THEN utf8_decode_ignore(Slice(payload, r.offset,
                                           r.offset + Narrow(r.value)))
             ELSE <<>>

\* _parse_version_payload with the bytes skipped between the timestamp and
\* the user agent as a parameter
VersionFields(payload, skipped) ==
    IF Len(payload) < 4 THEN VersionInfo({}, None, None, None, None)
    ELSE LET version == unpack_I(Slice(payload, 0, 4))
         IN  IF Len(payload) < 12
             THEN VersionInfo({"version"}, version, None, None, None)
             ELSE LET services == unpack_Q_wide(Slice(payload, 4, 12))
                  IN  IF Len(payload) < 20
                      THEN VersionInfo({"version", "services"}, version, services,
                                       None, None)
                      ELSE VersionInfo({"version", "services", "timestamp",
                                        "user_agent"},
                                       version, services,
                                       unpack_Q_wide(Slice(payload, 12, 20)),
                                       UserAgentAt(payload, 20 + skipped))

\* mutant: the nonce is not skipped
parse_version_payload_NonceRead(payload) == VersionFields(payload, 26 + 26)

\* _parse_version_payload (crawler.py 200-244): offset += 26, 26 and 8 after
\* the timestamp
parse_version_payload(payload) == VersionFields(payload, 26 + 26 + 8)

\* the arguments version payloads are built from
SatoshiAgent == <<47, 83, 97, 116, 111, 115, 104, 105, 58, 50, 52, 46, 48, 46, 49, 47>>
CrawlerAgent ==
    <<47, 66, 105, 116, 99, 111, 105, 110, 67, 114, 97, 119, 108, 101, 114, 58,
      48, 46, 49, 47>>
UmlautAgent == <<47, 228, 47>>     \* "/\u00e4/", three characters, four bytes
VersionArgs ==
    {[version |-> v, services |-> sv, timestamp |-> <<0, 1, 2, 3>>,
      addr_recv |-> R3, addr_from |-> << <<0, 0, 0, 0>>, 0 >>,
      nonce |-> n, user_agent |-> ua, start_height |-> h, relay |-> TRUE] :
        v \in {PROTOCOL_VERSION, 60002},
        sv \in {Wide(1), Wide(1033), <<258, 772, 1286, 1800>>},
        n \in {Wide(0), <<65535, 65535, 65535, 65535>>},
        ua \in {<<>>, SatoshiAgent, CrawlerAgent, UmlautAgent},
        h \in {0, 700000}}

\* _parse_version_payload is called on a payload create_version_message has
\* built
CallParseVersion ==
    /\ \E a \in VersionArgs :
        codec' = [op |-> "parse_version_payload", given |-> a,
                  input |-> create_version_payload(a),
                  output |-> parse_version_payload(create_version_payload(a))]
    /\ UNCHANGED <<crawlerVars, database>>

\* lines 165-167: the fields the record takes from the dict, get(key, 0) for
\* version and services and get(key, '') for user_agent
VersionOfRecord(version_info) ==
    [version |-> IF "version" \in version_info.keys
                 THEN version_info.version ELSE 0,
     services |-> IF "services" \in version_info.keys
                  THEN version_info.services ELSE Wide(0),
     user_agent |-> IF "user_agent" \in version_info.keys
                    THEN version_info.user_agent ELSE <<>>]

\* the arguments of the version payloads that are cut: services whose bytes
\* all differ, and user agents of one byte a character
CutVersionArgs ==
    {a \in VersionArgs :
        /\ a.version = PROTOCOL_VERSION
        /\ a.services = <<258, 772, 1286, 1800>>
        /\ a.nonce = Wide(0)
        /\ a.start_height = 700000
        /\ a.user_agent # UmlautAgent}

\* the offset of the user agent's length: 4 + 8 + 8 + 26 + 26 + 8
AgentOffset == 4 + 8 + 8 + 26 + 26 + 8

\* what stands for the user agent's length: a length whose bytes are cut, a
\* length of 2^64 - 1, lengths above the bytes that follow
BadAgentLengths ==
    {<<253>>, <<253, 5>>, <<254, 1, 0, 0>>, <<255, 1, 0, 0, 0, 0, 0, 0>>,
     <<255, 255, 255, 255, 255, 255, 255, 255, 255, 47>>,
     <<5, 47, 47>>, <<253, 200, 0, 47>>}

\* the cuts of a payload: its first bytes, any number of them, and its bytes
\* before the user agent followed by a bad length
VersionCuts(whole) ==
    {[len |-> n, tail |-> <<>>] : n \in 0..Len(whole)}
    \cup {[len |-> AgentOffset, tail |-> t] : t \in BadAgentLengths}

\* _parse_version_payload is called on a payload that is cut, and the fields
\* of the record are read from its dict (lines 157, 165-167)
CallParseVersionCut ==
    /\ codec.op = "none"
    /\ \E a \in CutVersionArgs :
        LET whole == create_version_payload(a)
        IN  \E cut \in VersionCuts(whole) :
              LET payload == SubSeq(whole, 1, cut.len) \o cut.tail
                  version_info == parse_version_payload(payload)
              IN  codec' = [op |-> "parse_version_cut",
                            given |-> [args |-> a, len |-> cut.len,
                                       tail |-> cut.tail],
                            input |-> payload,
                            output |-> [info |-> version_info,
                                        record |-> VersionOfRecord(version_info)]]
    /\ UNCHANGED <<crawlerVars, database>>

\* the values varints are made of: the boundaries of the four forms, their
\* neighbours, values whose bytes all differ, and the largest one
VarintValues ==
    {Wide(0), Wide(252), Wide(253), Wide(254), Wide(255), Wide(256),
     Wide(4660), Wide(65535), Wide(65536), <<0, 0, 4660, 22136>>,
     <<0, 0, 65535, 65535>>, <<0, 1, 0, 0>>, <<258, 772, 1286, 1800>>,
     <<65535, 65535, 65535, 65535>>}

\* varint_decode is called at an offset of a buffer, on what varint_encode
\* has returned, other bytes before and after it
CallVarint ==
    /\ \E n \in VarintValues, before \in {<<>>, <<255, 3>>}, after \in {<<>>, <<9>>} :
        LET data == before \o varint_encode(n) \o after
        IN  codec' = [op |-> "varint", given |-> [n |-> n, offset |-> Len(before)],
                      input |-> data, output |-> varint_decode(data, Len(before))]
    /\ UNCHANGED <<crawlerVars, database>>

CodecNext ==
    \/ CallParseAddr
    \/ CallParseAddrCut
    \/ CallParseAddrLong
    \/ CallCreateMessage
    \/ CallParseMessage
    \/ CallParseDamaged
    \/ CallVarint
    \/ CallParseVersion
    \/ CallParseVersionCut

CodecSpec == Init /\ [][CodecNext]_vars

(***************************************************************************)
(* The sink: database.py as crawl_batch uses it.  A row of the nodes table *)
(* is its id, its key (ip, port) and its other columns, of which the model *)
(* keeps peers_discovered.  database.seq is the largest id ever given, the *)
(* counter AUTOINCREMENT keeps.                                            *)
(***************************************************************************)
MaxRowId == 3      \* ids given in a behaviour
MaxBatch == 2      \* dictionaries of one batch

\* node.get('ip') of a dictionary without 'ip': the None of Python, kept
\* among the ip strings
NoIp == <<>>

\* the dictionaries of a batch: two endpoints of one ip, and a dictionary
\* without 'ip'
NodeDicts ==
    {[ip |-> e[1], port |-> e[2], peers_discovered |-> n] :
        e \in {R1, R2}, n \in 0..1}
    \cup {[ip |-> NoIp, port |-> R1[2], peers_discovered |-> 0]}

\* what can go wrong outside the data: sqlite3.connect cannot open the file,
\* or another connection holds the lock of the file
Faults == {"none", "connect", "locked"}

IntegrityError == [error |-> "IntegrityError"]
OperationalError == [error |-> "OperationalError"]

\* the row a dictionary is stored as, under the next id
RowOf(tbl, node) ==
    [id |-> tbl.seq + 1, ip |-> node.ip, port |-> node.port,
     peers_discovered |-> node.peers_discovered]

\* the rows UNIQUE(ip, port) does not allow beside a dictionary
Conflicting(tbl, node) ==
    {r \in tbl.nodes : r.ip = node.ip /\ r.port = node.port}

\* INSERT OR IGNORE: a dictionary in conflict is dropped
insert_or_replace_Ignore(tbl, node) ==
    IF Conflicting(tbl, node) # {} THEN tbl
    ELSE [nodes |-> tbl.nodes \cup {RowOf(tbl, node)}, seq |-> tbl.seq + 1]

\* lines 83-85, INSERT OR REPLACE of one dictionary: the rows in conflict are
\* deleted and the dictionary is inserted under a new id
insert_or_replace(tbl, node) ==
    [nodes |-> (tbl.nodes \ Conflicting(tbl, node)) \cup {RowOf(tbl, node)},
     seq |-> tbl.seq + 1]

\* lines 82-98, cursor.executemany: the dictionaries in the order of the list;
\* ip is NOT NULL (line 22) and has no default, which aborts the statement
RECURSIVE executemany(_, _)
executemany(tbl, nodes_data) ==
    IF nodes_data = <<>> THEN tbl
    ELSE IF Head(nodes_data).ip = NoIp THEN IntegrityError
    ELSE executemany(insert_or_replace(tbl, Head(nodes_data)), Tail(nodes_data))

\* lines 77-105.  The connection is opened outside the try (line 78), so a
\* failure of it is raised; every exception of executemany and commit is
\* logged and followed by a rollback (lines 101-103), and the call returns.
insert_nodes_batch(nodes_data, fault) ==
    LET tbl == [nodes |-> database.nodes, seq |-> database.seq]
        done == IF fault = "locked" THEN OperationalError
                ELSE executemany(tbl, nodes_data)
        failed == "error" \in DOMAIN done
        call(error, raised) ==
            [batch |-> nodes_data, fault |-> fault, error |-> error,
             raised |-> raised]
    IN  /\ database.seq + Len(nodes_data) <= MaxRowId
        /\ database' =
             IF fault = "connect"
             THEN [database EXCEPT !.call = call("OperationalError", TRUE)]
             ELSE IF failed
             THEN [database EXCEPT !.call = call(done.error, FALSE)]
             ELSE [nodes |-> done.nodes, seq |-> done.seq,
                   call |-> call("none", FALSE)]
        /\ UNCHANGED <<crawlerVars, codec>>

SinkNext ==
    \E nodes_data \in SeqsUpTo(NodeDicts, MaxBatch), fault \in Faults :
        insert_nodes_batch(nodes_data, fault)

SinkSpec == Init /\ [][SinkNext]_vars

TypeOK ==
    /\ semaphore \in 0..max_concurrent
    /\ discovered_nodes \subseteq Endpoints
    /\ crawled_nodes \subseteq Endpoints
    /\ failed_nodes \subseteq Endpoints
    /\ spc \in {"init", "loop", "gather", "done"}

(***************************************************************************)
(* Properties of the scheduler and of the sessions.                        *)
(***************************************************************************)
Frontier == discovered_nodes \ crawled_nodes

NoTaskLeft == \A e \in Endpoints : sess[e].pc = "none"

C2_AttemptedAtMostOnce == \A e \in Endpoints : conn_attempts[e] <= 1

\* a second batch is under way while the endpoint of the first one, attempted
\* once, is still in discovered
C2_Witness ==
    /\ spc = "gather"
    /\ iteration = 2
    /\ R1 \in discovered_nodes
    /\ conn_attempts[R1] = 1
    /\ sess[R1].pc = "none"
    /\ R2 \in InFlight
    /\ conn_attempts[R2] = 1

\* C3: |crawled| <= max_nodes + max_concurrent - 1 during and after a crawl
\* on a fresh crawler; failed attempts count.
C3_CrawledWithinBudget ==
    spc # "init" =>
        Cardinality(crawled_nodes) <= max_nodes + max_concurrent - 1

\* a finished crawl that overshot max_nodes by a full batch minus one, with a
\* failed attempt among the crawled
C3_Witness ==
    /\ spc = "done"
    /\ max_concurrent > 1
    /\ Cardinality(crawled_nodes) = max_nodes + max_concurrent - 1
    /\ failed_nodes # {}

C5_Accounting ==
    Len(node_data) + Cardinality(failed_nodes) + Cardinality(InFlight)
        = Cardinality(crawled_nodes)

\* C6: failed is a subset of crawled in every reachable state.
C6_FailedSubsetCrawled == failed_nodes \subseteq crawled_nodes

\* mid-batch: one session has failed while another one of the batch is still
\* in flight
C6_Witness ==
    /\ spc = "gather"
    /\ failed_nodes # {}
    /\ InFlight # {}

\* C7: no private, loopback, link-local or unparseable address is ever in
\* discovered.
C7_OnlyRoutableDiscovered ==
    \A e \in discovered_nodes :
        /\ Parses(e[1])
        /\ ~IsPrivate(e[1]) /\ ~IsLoopback(e[1]) /\ ~IsLinkLocal(e[1])

\* a session has returned a record counting one advertised peer, and that
\* peer was not accepted: discovered holds the seed alone
C7_Witness ==
    /\ sess[R1].pc = "done"
    /\ sess[R1].result # None
    /\ sess[R1].result.peers_discovered = 1
    /\ discovered_nodes = {R1}

\* C8: the sessions in flight never outnumber max_concurrent; each holds one
\* permit of the semaphore, which a session needs to start.
C8_InFlightBounded ==
    /\ Cardinality(InFlight) <= max_concurrent
    /\ semaphore = max_concurrent - Cardinality(InFlight)

\* max_concurrent sessions, more than one, are in flight at once
C8_Witness ==
    /\ max_concurrent > 1
    /\ Cardinality(InFlight) = max_concurrent
    /\ semaphore = 0

\* C9 as stated: a session whose connection was established has closed its
\* socket when it ends, on every exit path.
C9_SocketClosedOnExit ==
    \A e \in Endpoints : sess[e].pc = "done" => sess[e].sock # "open"

\* C10 as stated: a session that ends without a record because of a transport
\* error has its endpoint in failed.
C10_TransportFailureMarked ==
    \A e \in Endpoints :
        sess[e].pc = "done" /\ sess[e].cause = "transport" => e \in failed_nodes

(***************************************************************************)
(* Properties of one session.                                              *)
(***************************************************************************)
\* the frames of a session up to the drain, in the order of the protocol
SessionOrder ==
    <<Out(CmdVersion), In(CmdVersion), Out(CmdVerack), In(CmdVerack),
      Out(CmdGetaddr)>>

IsPrefix(a, b) == Len(a) <= Len(b) /\ a = SubSeq(b, 1, Len(a))

\* C11: within a session, version is written before anything is read, verack
\* only after a version frame was accepted, getaddr only after a verack frame
\* was accepted, and bytes are taken for addr frames only after getaddr was
\* written.
C11_MessageOrder ==
    \A e \in Endpoints :
        /\ IsPrefix(sess[e].log, SessionOrder)
        /\ sess[e].pc \in {"read_version", "read_verack", "drain"}
               => sess[e].log # <<>> /\ sess[e].log[1] = Out(CmdVersion)
        /\ sess[e].addr_data # <<>> \/ sess[e].new_peers # <<>>
               => sess[e].log = SessionOrder

\* a session in its drain loop has collected peers from an addr frame
C11_Witness ==
    /\ sess[R1].pc = "drain"
    /\ sess[R1].new_peers # <<>>
    /\ sess[R1].log = SessionOrder

\* C12 as stated: a session answered with version, verack and one addr frame
\* of 3 new routable IPv4 peers (scenario S5) ends the crawl with exactly one
\* record of the endpoint in the buffer, the 3 peers in discovered, and the
\* endpoint in crawled and not in failed.
C12_HappyPath ==
    remote.name = "S5" /\ spc = "done" =>
        /\ Cardinality({i \in 1..Len(node_data) :
                           <<node_data[i].ip, node_data[i].port>> = MockSeed(1)}) = 1
        /\ {MockPeer(1, j) : j \in 1..3} \subseteq discovered_nodes
        /\ MockSeed(1) \in crawled_nodes
        /\ MockSeed(1) \notin failed_nodes

(***************************************************************************)
(* Properties of the codec.                                                *)
(***************************************************************************)
\* the peers of a list of addresses that are in the IPv4-mapped form, in
\* order, as (ip, port, timestamp)
RECURSIVE MappedPeers(_, _)
MappedPeers(addrs, i) ==
    IF i > Len(addrs) THEN <<>>
    ELSE (IF addrs[i].kind = "mapped"
          THEN << <<addrs[i].ep[1], addrs[i].ep[2], i>> >> ELSE <<>>)
         \o MappedPeers(addrs, i + 1)

\* C13 as stated: parse_addr_message returns every peer of the payload that
\* is in the IPv4-mapped form (10 zero bytes, FF FF, four bytes), in order, as
\* (dotted quad, port, timestamp), and nothing for a pure IPv6 record.
C13_MappedPeersParsed ==
    codec.op = "parse_addr_message" =>
        codec.output = MappedPeers(codec.given, 1)

(***************************************************************************)
(* Termination.                                                            *)
(***************************************************************************)
\* how far a task is in connect_to_node: each step of a session takes it
\* further, a read of the drain loop by attempts
PcRank(s) ==
    CASE s.pc = "none" -> 0
      [] s.pc = "queued" -> 1
      [] s.pc = "connecting" -> 2
      [] s.pc = "send_version" -> 3
      [] s.pc = "read_version" -> 4
      [] s.pc = "send_verack" -> 5
      [] s.pc = "read_verack" -> 6
      [] s.pc = "send_getaddr" -> 7
      [] s.pc = "drain" -> 8 + s.attempts
      [] s.pc = "closing" -> 8 + max_attempts + (IF s.handler THEN 1 ELSE 0)
      [] s.pc = "done" -> 10 + max_attempts

RECURSIVE SessRank(_)
SessRank(S) ==
    IF S = {} THEN 0
    ELSE LET e == CHOOSE x \in S : TRUE
         IN  PcRank(sess[e]) + SessRank(S \ {e})

\* how far crawl is: twice the iterations so far, and the half iteration
\* after gather
SchedRank ==
    CASE spc = "init" -> 0
      [] spc = "gather" -> 2 * iteration
      [] spc = "loop" -> 2 * iteration + 1
      [] spc = "done" -> 2 * iteration + 2

\* the variant of a crawl: the position of crawl first, then the positions
\* of the tasks of the batch
Rank == SchedRank * (11 + max_attempts) * max_concurrent + SessRank(to_crawl)

\* C14: crawl terminates when every await of its sessions ends.  An
\* iteration that selects something adds to crawled, so the iterations of
\* the loop are at most max_nodes; no task waits for a permit; and every step
\* of the scheduler and of a session increases a variant that is bounded.
C14_Terminates ==
    /\ [](iteration <= max_nodes)
    /\ [](spc = "loop" => iteration <= Cardinality(crawled_nodes))
    /\ [](\A e \in Endpoints : sess[e].pc = "queued" => SemFree(semaphore))
    /\ [](Rank <= (2 * max_nodes + 3) * (11 + max_attempts) * max_concurrent)
    /\ [][Rank' > Rank]_vars

\* a crawl that ran max_nodes iterations, more than one
C14_Witness ==
    /\ spc = "done"
    /\ max_nodes >= 2
    /\ iteration = max_nodes

\* the session of e ends in this step without a record
EndsWithoutRecord(e) ==
    /\ sess[e].pc \notin {"none", "done"}
    /\ sess'[e].pc = "done"
    /\ sess'[e].result = None

\* the tasks of the batch that returned a record
WithRecord == {e \in to_crawl : sess[e].result # None}

\* C15: an error in one session changes the outcome of that endpoint only.  The
\* step in which a session ends without a record leaves every other session,
\* the buffer, the batch, the scheduler and discovered as they are, and adds
\* at most its own endpoint to crawled and failed; gather returns only when
\* every task of the batch is done, and every record of the batch is then in
\* the buffer, whatever the other tasks returned; and the loop is left only
\* by its own conditions, never because a session failed.
C15_ErrorIsolation ==
    [][ /\ \A e \in Endpoints : EndsWithoutRecord(e) =>
              /\ \A f \in Endpoints \ {e} : sess'[f] = sess[f]
              /\ node_data' = node_data
              /\ spc' = spc
              /\ to_crawl' = to_crawl
              /\ discovered_nodes' = discovered_nodes
              /\ crawled_nodes' \ crawled_nodes \subseteq {e}
              /\ failed_nodes' \ failed_nodes \subseteq {e}
        /\ (spc = "gather" /\ spc' # "gather") =>
              /\ spc' = "loop"
              /\ \A e \in to_crawl : sess[e].pc = "done"
              /\ Len(node_data') = Len(node_data) + Cardinality(WithRecord)
              /\ \A e \in WithRecord :
                    \E i \in (Len(node_data) + 1)..Len(node_data') :
                        node_data'[i] = sess[e].result
        /\ (spc = "loop" /\ spc' = "done") => (~LoopCond \/ Frontier = {})
      ]_vars

\* the first batch is over: one of its two sessions failed, the other one's
\* record is in the buffer
C15_Witness ==
    /\ spc = "loop"
    /\ iteration = 1
    /\ Cardinality(crawled_nodes) = 2
    /\ failed_nodes # {}
    /\ Len(node_data) = 1

\* the progress callback is invoked in this step
Invoked == viz_calls' > viz_calls

\* C16 as stated: the callback is invoked only when at least 20 records were
\* added to the buffer since its previous invocation.  last_viz_update is the
\* size of the buffer at the previous invocation when that one returned.
C16_OnlyEveryTwenty ==
    [][Invoked => Len(node_data') - last_viz_update >= VizThreshold]_vars

\* C16, amended: in the loop the callback is invoked once after a batch, and
\* only when the buffer holds at least 20 records more than at the last
\* invocation that returned without an exception (last_viz_update, which
\* changes only at such an invocation and then becomes the size of the
\* buffer); after the loop it is invoked once more when the buffer holds at
\* least one record more than at that invocation.  Without a callback nothing
\* is invoked.
C16_ThresholdOrFinal ==
    [][ /\ Invoked =>
              /\ has_callback
              /\ viz_calls' = viz_calls + 1
              /\ \/ /\ spc = "gather" /\ spc' = "loop"
                    /\ Len(node_data') - last_viz_update >= VizThreshold
                    /\ last_viz_update' \in {last_viz_update, Len(node_data')}
                 \/ /\ spc = "loop" /\ spc' = "done"
                    /\ Len(node_data') > last_viz_update
                    /\ last_viz_update' = last_viz_update
        /\ (last_viz_update' # last_viz_update) =>
              /\ Invoked
              /\ last_viz_update' = Len(node_data')
      ]_vars

\* the callback was invoked twice in the loop: the first invocation raised
\* with 20 records in the buffer, the second one, after the next batch,
\* returned
C16_Witness ==
    /\ spc = "loop"
    /\ viz_calls = 2
    /\ Len(node_data) > VizThreshold
    /\ last_viz_update = Len(node_data)

\* the mock networks all of whose peers complete the handshake
AllShakeHands == remote.name \notin {"coalesced", "behind", "noversion"}

\* C17: an exception raised by the callback is not propagated.  After an
\* invocation in the loop the scheduler is at the top of the loop with the
\* sets and the buffer of the batch, whether the callback raised (which
\* leaves last_viz_update as it was) or not; the final invocation ends the
\* crawl with the buffer unchanged; and the buffer crawl returns holds the
\* record of every endpoint crawled and not failed on a network where no
\* session ends otherwise.
C17_CallbackErrorsCaught ==
    /\ [][Invoked =>
            /\ discovered_nodes' = discovered_nodes
            /\ crawled_nodes' = crawled_nodes
            /\ failed_nodes' = failed_nodes
            /\ spc = "gather" =>
                  /\ spc' = "loop"
                  /\ \E q \in Listed(to_crawl, Cardinality(to_crawl)) :
                        node_data' = node_data \o Collected(q)
            /\ spc # "gather" =>
                  /\ spc = "loop" /\ spc' = "done"
                  /\ node_data' = node_data
         ]_vars
    /\ [](spc = "done" /\ remote.kind = "mock" /\ AllShakeHands =>
            {<<node_data[i].ip, node_data[i].port>> : i \in 1..Len(node_data)}
                = crawled_nodes)

\* a crawl that is over, all of whose invocations of the callback raised: the
\* one in the loop at 20 records, the one after the next batch, and the final
\* one; the buffer has all 22 records
C17_Witness ==
    /\ spc = "done"
    /\ viz_calls >= 3
    /\ last_viz_update = 0
    /\ Len(node_data) = VizThreshold + 2

\* C18 as stated: with 5 routable seeds and remotes that complete the
\* handshake and advertise 2 new routable peers each (scenario S6), crawl
\* with max_nodes = 50 ends with max_nodes <= |crawled| <= max_nodes +
\* max_concurrent - 1 and has invoked the callback at least twice.
C18_SchedulerTermination ==
    (remote.name = "S6" /\ spc = "done") =>
        /\ max_nodes = 50
        /\ Cardinality(crawled_nodes) >= max_nodes
        /\ Cardinality(crawled_nodes) <= max_nodes + max_concurrent - 1
        /\ has_callback => viz_calls >= 2

\* the endpoint of a record of the buffer
RecordEndpoint(rec) == <<rec.ip, rec.port>>

\* C19: no record of the buffer has a private, loopback or link-local IP.
\* Every task is created for an endpoint of discovered, and every record of
\* the buffer, at every moment and so in the buffer crawl returns, is the
\* record of an endpoint of discovered whose ip is an IP address that is
\* neither private, nor loopback, nor link-local.
C19_NoPrivateRecord ==
    /\ \A e \in Endpoints : sess[e].pc # "none" => e \in discovered_nodes
    /\ \A i \in 1..Len(node_data) :
          /\ RecordEndpoint(node_data[i]) \in discovered_nodes
          /\ Parses(node_data[i].ip)
          /\ ~IsPrivate(node_data[i].ip)
          /\ ~IsLoopback(node_data[i].ip)
          /\ ~IsLinkLocal(node_data[i].ip)

\* a crawl that is over with the records of two endpoints, one of which was
\* advertised an address that was not accepted
C19_Witness ==
    /\ spc = "done"
    /\ Len(node_data) = 2
    /\ \E i \in 1..2 : node_data[i].peers_discovered > 0
    /\ discovered_nodes = {R1, R2}

\* C20 as stated: for a frame made by create_message with any of the three
\* magics, a command and a payload, parse_message yields the command and the
\* payload, and the frame read (the header and the payload, which is what the
\* callers advance by) is the whole of it.
C20_FrameRoundTrip ==
    codec.op = "parse_message" =>
        /\ codec.output # None
        /\ codec.output = [cmd |-> codec.given.command,
                           payload |-> codec.given.payload]
        /\ HeaderLen + Len(codec.output.payload) = Len(codec.input)

\* C21 as stated: parse_message reports a truncated frame and a corrupted
\* frame as two outcomes its caller can tell apart.  Neither is parsed as a
\* frame; and of two calls in a row, the first on a truncated frame and the
\* second on a corrupted one, the results differ.
C21_IncompleteOrMalformed ==
    [][codec'.op = "parse_damaged" =>
          /\ codec'.output = None
          /\ (/\ codec.op = "parse_damaged"
              /\ codec.given.damage \in Truncations
              /\ codec'.given.damage \in Corruptions)
             => codec'.output # codec.output
      ]_vars

\* the length the encoding of a value has: 9 bytes above 0xFFFFFFFF, 5 from
\* 0x10000, 3 from 0xFD, else 1
VarintLength(n) ==
    IF n[1] # 0 \/ n[2] # 0 THEN 9
    ELSE IF n[3] # 0 THEN 5
    ELSE IF n[4] >= 253 THEN 3
    ELSE 1

\* C22: varint_decode gives back the value varint_encode was given and the
\* offset just after its bytes, wherever in a buffer they are, and the
\* encoding has 1, 3, 5 or 9 bytes according to the value.
C22_VarintRoundTrip ==
    codec.op = "varint" =>
        /\ codec.output # ValueError
        /\ codec.output.value = codec.given.n
        /\ codec.output.offset - codec.given.offset = Len(varint_encode(codec.given.n))
        /\ Len(varint_encode(codec.given.n)) = VarintLength(codec.given.n)

\* 0x100000000 was encoded on 9 bytes and decoded in the middle of a buffer
C22_Witness ==
    /\ codec.op = "varint"
    /\ codec.given = [n |-> <<0, 1, 0, 0>>, offset |-> 2]
    /\ codec.input = <<255, 3, 255, 0, 0, 0, 0, 1, 0, 0, 0, 9>>
    /\ codec.output = [value |-> <<0, 1, 0, 0>>, offset |-> 11]

\* the user agent a version payload holds: the bytes its length prefix, at
\* offset 80, announces
AgentField(payload) == Slice(payload, 81, 81 + payload[81])

\* C23: _parse_version_payload returns the version, the services and the user
\* agent of a version payload laid out as create_version_message lays it
\* out, the user agent being read after the 80 bytes before it; all four
\* keys are present.  The user agent of the payload is the one the payload
\* was built from when the length before it is the length of its bytes,
\* which is so for a user agent of ASCII characters.
C23_VersionParsed ==
    codec.op = "parse_version_payload" =>
        /\ codec.output.keys = {"version", "services", "timestamp", "user_agent"}
        /\ codec.output.version = codec.given.version
        /\ codec.output.services = codec.given.services
        /\ codec.output.timestamp = codec.given.timestamp
        /\ AgentField(codec.input) = utf8_encode(codec.given.user_agent)
              => codec.output.user_agent = codec.given.user_agent
        /\ (\A i \in 1..Len(codec.given.user_agent) : codec.given.user_agent[i] < 128)
              => AgentField(codec.input) = utf8_encode(codec.given.user_agent)

\* the payload of version 70015, services 1 and user agent /Satoshi:24.0.1/
\* was parsed
C23_Witness ==
    /\ codec.op = "parse_version_payload"
    /\ Len(codec.input) = 80 + 1 + 16 + 5
    /\ codec.output.version = 70015
    /\ codec.output.services = Wide(1)
    /\ codec.output.user_agent = SatoshiAgent

\* C26 as stated: once version is received and verack sent, the session goes
\* on to getaddr, and so to its record, when the peer's verack frame arrives
\* in a read of its own (S5), in the read that brought the version frame
\* (coalesced), or behind another frame (behind): no session of these
\* networks ends without a record.
C26_VerackInAnyRead ==
    remote.name \in {"S5", "coalesced", "behind"} =>
        /\ \A e \in Endpoints : sess[e].pc = "done" => sess[e].result # None
        /\ spc = "done" => Len(node_data) = remote.seeds

\* C27 as stated: the peers of an addr frame are collected once, however many
\* reads follow its arrival.  On the network where the peer sends one addr
\* frame of one parsed peer and then a ping frame (twice), a session never
\* holds more than that peer and its record counts one peer.
C27_PeersCollectedOnce ==
    remote.name = "twice" =>
        /\ \A e \in Endpoints : Len(sess[e].new_peers) <= 1
        /\ \A i \in 1..Len(node_data) : node_data[i].peers_discovered = 1

\* C28 as stated: once the session holds peers of an addr frame and 2
\* attempts have elapsed, no further read is attempted: no session awaits a
\* read of the drain in that condition.
C28_EarlyExit ==
    \A e \in Endpoints :
        sess[e].pc = "drain" =>
            ~(sess[e].new_peers # <<>> /\ sess[e].attempts >= 2)

\* C29: the drain loop makes at most 8 read attempts and ends.  A read is
\* awaited only with fewer than 8 attempts counted, and every read that
\* returns, with data, with no byte, by its timeout or with an error, either
\* is counted and followed by the next read, or ends the loop.
C29_DrainBounded ==
    /\ [](\A e \in Endpoints :
            sess[e].pc = "drain" => sess[e].attempts \in 0..(max_attempts - 1))
    /\ [][\A e \in Endpoints :
            (sess[e].pc = "drain" /\ sess'[e] # sess[e]) =>
                \/ /\ sess'[e].pc = "drain"
                   /\ sess'[e].attempts = sess[e].attempts + 1
                \/ sess'[e].pc = "closing" /\ sess'[e].after = "record"
         ]_vars

\* a session awaits the eighth read of its drain, a frame received before
C29_Witness ==
    \E e \in Endpoints :
        /\ sess[e].pc = "drain"
        /\ sess[e].attempts = max_attempts - 1
        /\ sess[e].addr_data # <<>>

\* C30: when open_connection is refused, times out or raises, the session
\* ends at once: its endpoint is in crawled and in failed, it has written no
\* message and opened no socket, it returns no record, and discovered and
\* the buffer are as before.  A session that awaits open_connection goes
\* nowhere else than to the version message or to that end.
C30_ConnectFailure ==
    [][\A e \in Endpoints :
          (sess[e].pc = "connecting" /\ sess'[e] # sess[e]) =>
              \/ /\ sess'[e].pc = "send_version"
                 /\ sess'[e].sock = "open"
              \/ /\ sess'[e].pc = "done"
                 /\ sess'[e].result = None
                 /\ e \in crawled_nodes'
                 /\ e \in failed_nodes'
                 /\ sess[e].log = <<>>
                 /\ sess'[e].sock = "none"
                 /\ discovered_nodes' = discovered_nodes
                 /\ node_data' = node_data
      ]_vars

\* the connection to R1 failed and the connection to R2 is open, in one batch
C30_Witness ==
    /\ sess[R1].pc = "done"
    /\ sess[R1].sock = "none"
    /\ sess[R1].cause = "transport"
    /\ R1 \in failed_nodes
    /\ R1 \in crawled_nodes
    /\ sess[R2].sock = "open"
    /\ node_data = <<>>

(***************************************************************************)
(* Properties of the sink.                                                 *)
(***************************************************************************)
\* the last dictionary of a batch that has the key of the i-th one
LastOf(batch, i) ==
    LET same == {j \in i..Len(batch) :
                    batch[j].ip = batch[i].ip /\ batch[j].port = batch[i].port}
    IN  batch[CHOOSE j \in same : \A k \in same : k <= j]

BatchKeys(batch) == {<<batch[i].ip, batch[i].port>> : i \in 1..Len(batch)}

\* C24: after every call of insert_nodes_batch the table has at most one row
\* per (ip, port); after a call that committed, the row of each endpoint of
\* the batch holds the values of the last dictionary of the batch for that
\* endpoint, also when the batch has the endpoint twice, and the rows of the
\* other endpoints are the ones of before; a call that failed leaves the
\* table as it was.
C24_OneRowPerEndpoint ==
    [][LET batch == database'.call.batch
       IN  /\ \A r1, r2 \in database'.nodes :
                  (r1.ip = r2.ip /\ r1.port = r2.port) => r1 = r2
           /\ database'.call.error = "none" =>
                  /\ \A i \in 1..Len(batch) :
                        \E r \in database'.nodes :
                            /\ r.ip = batch[i].ip
                            /\ r.port = batch[i].port
                            /\ r.peers_discovered =
                                   LastOf(batch, i).peers_discovered
                  /\ \A r \in database.nodes \cup database'.nodes :
                        <<r.ip, r.port>> \notin BatchKeys(batch) =>
                            r \in database.nodes \cap database'.nodes
           /\ database'.call.error # "none" =>
                  database'.nodes = database.nodes
      ]_vars

\* a batch with the endpoint R1 twice was committed on a table that had a row
\* for R1 and one for R2: the row of R1 holds the second dictionary
C24_Witness ==
    /\ database.call.error = "none"
    /\ database.call.batch =
           <<[ip |-> R1[1], port |-> R1[2], peers_discovered |-> 0],
             [ip |-> R1[1], port |-> R1[2], peers_discovered |-> 1]>>
    /\ database.nodes =
           {[id |-> 1, ip |-> R2[1], port |-> R2[2], peers_discovered |-> 0],
            [id |-> 3, ip |-> R1[1], port |-> R1[2], peers_discovered |-> 1]}

\* C25: a call of insert_nodes_batch in which an error occurred raised it to
\* its caller.
C25_SinkErrorRaised ==
    database.call.error # "none" => database.call.raised

(***************************************************************************)
(* Sessions that end before the handshake is over.                         *)
(***************************************************************************)
\* C31: when the first read after the version message returns zero bytes,
\* times out, raises or does not start with a version frame (the network
\* "noversion"), the session writes nothing after its version message and
\* returns no record; nothing is added to discovered or to the buffer, the
\* endpoint is in crawled from its attempt on and is attempted once, though
\* the loop goes on after the session.
C31_FirstReadFails ==
    remote.name = "noversion" =>
        /\ \A e \in Endpoints :
              /\ IsPrefix(sess[e].log, <<Out(CmdVersion)>>)
              /\ sess[e].pc \notin {"send_verack", "read_verack", "send_getaddr",
                                    "drain"}
              /\ sess[e].after # "record"
              /\ sess[e].result = None
              /\ sess[e].new_peers = <<>>
              /\ conn_attempts[e] <= 1
              /\ conn_attempts[e] = 1 => e \in crawled_nodes
        /\ node_data = <<>>
        /\ discovered_nodes \subseteq {MockSeed(1)}
        /\ spc = "done" => crawled_nodes = {MockSeed(1)} /\ iteration = 2

\* the crawl is over; its one session read something that is no version
\* frame, closed its socket and returned; the loop went on to a second
\* iteration, which found nothing to attempt
C31_Witness ==
    /\ remote.name = "noversion"
    /\ spc = "done"
    /\ exit_cause = "break"
    /\ iteration = 2
    /\ conn_attempts[MockSeed(1)] = 1
    /\ MockSeed(1) \in crawled_nodes
    /\ MockSeed(1) \notin failed_nodes
    /\ node_data = <<>>

(***************************************************************************)
(* Properties of parse_addr_message.                                       *)
(***************************************************************************)
\* the peers of the records of a list that the test of line 125 accepts (12
\* zero bytes, FF FF), in order, each with the port and the timestamp of its
\* own record; the timestamp of the i-th record is i
RECURSIVE AcceptedPeers(_, _)
AcceptedPeers(addrs, i) ==
    IF i > Len(addrs) THEN <<>>
    ELSE (IF addrs[i].kind = "twelve"
          THEN << <<SubSeq(addrs[i].ep[1], 1, 2), addrs[i].ep[2], i>> >>
          ELSE <<>>)
         \o AcceptedPeers(addrs, i + 1)

\* C32: a record whose address does not pass the test of the parser is
\* skipped by 30 bytes from its start: the call returns, without an error,
\* the peers of the other records, each read at its own boundary (its own
\* timestamp and port), whatever records come before it.
C32_SkippedByThirty ==
    codec.op = "parse_addr_message" =>
        /\ codec.output = AcceptedPeers(codec.given, 1)
        /\ Len(codec.input) = 1 + AddrRecordLen * Len(codec.given)

\* a pure IPv6 record followed by a record the parser accepts: the peer of
\* the second record is returned with the timestamp of the second record
C32_Witness ==
    /\ codec.op = "parse_addr_message"
    /\ codec.given = <<[kind |-> "ipv6", ep |-> R3], [kind |-> "twelve", ep |-> R3]>>
    /\ codec.output = << << <<1, 1>>, 8333, 2 >> >>

\* the records of a payload of len bytes, hdr of them the count, that are
\* whole, at most count of them
WholeRecords(len, hdr, count) ==
    LET whole == IF len < hdr THEN 0 ELSE (len - hdr) \div AddrRecordLen
    IN  IF WideLeq(count, Wide(whole)) THEN Narrow(count) ELSE whole

\* C33: parse_addr_message reads min(count, 1000) records at most and none
\* that is not whole in the payload.  On the first bytes of a payload, cut
\* inside the count, inside a record or between records, it returns the
\* peers of the records that are whole, count of them at most, and no error;
\* on a payload of 1001 records it returns the first min(count, 1000).
C33_CountCappedNoOverread ==
    /\ codec.op = "parse_addr_cut" =>
          LET m == WholeRecords(Len(codec.input), codec.given.hdr,
                                codec.given.count)
          IN  /\ m <= Len(codec.given.addrs)
              /\ codec.output = AcceptedPeers(SubSeq(codec.given.addrs, 1, m), 1)
    /\ codec.op = "parse_addr_long" =>
          LET m == RecordsToRead(codec.given.count)
          IN  /\ m <= MaxAddrCount
              /\ Len(codec.output) = m
              /\ \A k \in 1..m : codec.output[k] = << <<8, 9>>, 8333, k >>

\* a payload of 1001 records behind the count 1001 gave 1000 peers
C33_Witness ==
    /\ codec.op = "parse_addr_long"
    /\ codec.given.count = Wide(MaxAddrCount + 1)
    /\ Len(codec.input) = 3 + AddrRecordLen * (MaxAddrCount + 1)
    /\ Len(codec.output) = MaxAddrCount

\* a payload cut inside its second record, behind a count above 1000 in the
\* nine-byte form, gave the peer of the first record
C33_WitnessCut ==
    /\ codec.op = "parse_addr_cut"
    /\ codec.given.count = <<65535, 65535, 65535, 65535>>
    /\ Len(codec.given.addrs) = 2
    /\ Len(codec.input) = 9 + 2 * AddrRecordLen - 1
    /\ codec.output = << << <<1, 1>>, 8333, 1 >> >>

\* C34: each crawl call starts from empty sets and an empty buffer: when the
\* seed phase of a call is over and no iteration has begun, crawled, failed
\* and the buffer are empty and discovered holds exactly the accepted seeds of
\* the call.
C34_EachCallStartsEmpty ==
    spc = "loop" /\ iteration = 0 =>
        /\ crawled_nodes = {}
        /\ failed_nodes = {}
        /\ node_data = <<>>
        /\ \E args \in CrawlInputs :
              discovered_nodes = AcceptedSeeds(args.seed_nodes)

\* C35: _parse_version_payload returns a dict for a payload cut at any length:
\* version, services and timestamp are in it exactly when all their bytes are
\* there, with their values; the record holds the version and the services
\* that are whole and 0 for those that are not, and the user agent when its
\* length and all its bytes are there, "" when the length is missing, does not
\* decode or exceeds the bytes that follow.
C35_TruncatedVersion ==
    codec.op = "parse_version_cut" =>
        LET a == codec.given.args
            len == codec.given.len
            info == codec.output.info
            record == codec.output.record
        IN  /\ "version" \in info.keys <=> len >= 4
            /\ "services" \in info.keys <=> len >= 4 + 8
            /\ "timestamp" \in info.keys <=> len >= 4 + 8 + 8
            /\ "timestamp" \in info.keys => info.timestamp = a.timestamp
            /\ record.version = IF len >= 4 THEN a.version ELSE 0
            /\ record.services = IF len >= 4 + 8 THEN a.services ELSE Wide(0)
            /\ record.user_agent =
                  IF /\ codec.given.tail = <<>>
                     /\ len >= AgentOffset + 1 + Len(a.user_agent)
                  THEN a.user_agent ELSE <<>>

\* a payload cut inside its user agent: the record has the version and the
\* services, and no user agent
C35_Witness ==
    /\ codec.op = "parse_version_cut"
    /\ codec.given.args.user_agent = SatoshiAgent
    /\ Len(codec.input) = AgentOffset + 1 + 7
    /\ codec.output.record =
          [version |-> PROTOCOL_VERSION, services |-> <<258, 772, 1286, 1800>>,
           user_agent |-> <<>>]

\* C36: a record is made only by a session that went through the whole
\* protocol.  A session is about to make its record only after its drain
\* loop, having written version, accepted a version frame, written verack,
\* accepted a verack frame and written getaddr, in that order; a session
\* returns a record only from there, the record is that of its endpoint, and
\* every session that ended elsewhere returned None; the buffer grows only by
\* the records the sessions of the batch returned.
C36_RecordOnlyWhenDone ==
    /\ [](\A e \in Endpoints :
            /\ sess[e].after = "record" =>
                  /\ sess[e].pc = "closing" /\ ~sess[e].handler
                  /\ sess[e].log = SessionOrder
            /\ sess[e].result # None =>
                  /\ sess[e].pc = "done" /\ sess[e].cause = "record"
                  /\ sess[e].result.ip = e[1] /\ sess[e].result.port = e[2])
    /\ [][\A e \in Endpoints :
            /\ (sess'[e].after = "record" /\ sess[e].after # "record")
                  => sess[e].pc = "drain"
            /\ (sess'[e].result # None /\ sess[e].result = None)
                  => sess[e].after = "record"
         ]_vars
    /\ [][/\ IsPrefix(node_data, node_data')
          /\ \A i \in (Len(node_data) + 1)..Len(node_data') :
                \E e \in to_crawl : sess[e].result = node_data'[i]
         ]_vars

\* of two sessions of a batch, one has returned its record and the other has
\* ended on a frame it did not accept
C36_Witness ==
    \E e, f \in Endpoints :
        /\ sess[e].pc = "done" /\ sess[e].result # None
        /\ sess[f].pc = "done" /\ sess[f].cause = "protocol"

\* C37: the buffer never holds two records of the same (ip, port), and the
\* endpoint of every record of the buffer is in crawled.
C37_BufferDistinctAndCrawled ==
    /\ \A i, j \in 1..Len(node_data) :
          (node_data[i].ip = node_data[j].ip /\ node_data[i].port = node_data[j].port)
              => i = j
    /\ \A i \in 1..Len(node_data) :
          <<node_data[i].ip, node_data[i].port>> \in crawled_nodes

\* the buffer holds the records of two endpoints of one address
C37_Witness ==
    /\ Len(node_data) = 2
    /\ node_data[1].ip = node_data[2].ip
    /\ node_data[1].port # node_data[2].port
    /\ spc = "done"

\* C38: no endpoint has both a record in the buffer and an entry in failed.
\* A session that has returned a record has not added its endpoint to
\* failed; a step that adds an endpoint to failed is the end of the session
\* of that endpoint, which returns None, also when the step is a close that
\* raised in a handler after the close of the record had raised.
C38_RecordXorFailed ==
    /\ [](\A i \in 1..Len(node_data) :
            <<node_data[i].ip, node_data[i].port>> \notin failed_nodes)
    /\ [](\A e \in Endpoints : sess[e].result # None => e \notin failed_nodes)
    /\ [][\A e \in Endpoints :
            (e \in failed_nodes' /\ e \notin failed_nodes) =>
                /\ sess[e].pc \in {"connecting", "send_version", "closing"}
                /\ sess'[e].pc = "done"
                /\ sess'[e].result = None
                /\ node_data' = node_data
         ]_vars

\* the buffer holds a record, and the session of another endpoint, whose
\* close raised where the record is made and raised again in the handler,
\* has returned None and is in failed
C38_Witness ==
    \E e \in Endpoints :
        /\ sess[e].pc = "done"
        /\ sess[e].cause = "close"
        /\ sess[e].result = None
        /\ e \in failed_nodes
        /\ Len(node_data) = 1

====
